---- MODULE Spec2Model ----
(***************************************************************************)
(* The expression-tree engine of diffpy.srfit: Argument leaves, Operator   *)
(* nodes, the observer/flush protocol, Operator.getValue and the Swapper   *)
(* visitor with _swapLiteral.                                              *)
(*                                                                         *)
(* Node identity is a string.  An optional Python value (None or a number) *)
(* is a sequence of length 0 or 1: <<>> is None, <<3>> is the number 3.    *)
(***************************************************************************)
EXTENDS Integers, Sequences, FiniteSets, TLC

\* ------------------------------------------------------------------ bounds
\* Longest args list an Operator is given in the model.
MaxArgs == 2
\* Leaf values are drawn from 0..MaxVal.
MaxVal == 1
\* Number of operations in one behaviour.
MaxSteps == 2

\* ---------------------------------------------------------------- universe
\* Argument / Parameter leaves (value kept in _value).
Arguments == {"a"}
\* ParameterWrapper leaves (value kept in the wrapped object).
Wrappers == {"w"}
\* Parameter leaves (an Argument with setConst).
Parameters == {"b", "c"}
Leaves == Arguments \cup Wrappers \cup Parameters
\* Operator nodes.
Ops == {"F", "G", "H"}
Nodes == Leaves \cup Ops
\* The nodes the operations on a bare tree are tried with.
TreeNodes == Arguments \cup Wrappers \cup Ops
NoNode == "none"

None == << >>
Some(x) == << x >>
Vals == 0 .. MaxVal
OptVals == {None} \cup {Some(x) : x \in Vals}

\* The operation each Operator instance was constructed with.
operation == [o \in Ops |-> CASE o = "F" -> "subtract"
                             [] o = "G" -> "add"
                             [] OTHER   -> "negative"]

\* Recursion budget of the tree walks: an acyclic tree over Ops is never
\* deeper than Cardinality(Ops), so the budget is only exhausted on a cyclic
\* tree, where Python's own recursion limit ends the walk.
Fuel == Cardinality(Ops) + 1

VARIABLES
    args,       \* Operator.args: ordered children of every Operator
    observers,  \* Literal._observers: the Operators whose _flush observes a node
    cache,      \* Operator._value: the cached result of every Operator
    value,      \* Argument._value of every leaf
    obj,        \* the attribute of the object a ParameterWrapper wraps
    swapflag,   \* Swapper._swap of the Swapper used last
    last,       \* the operation performed last, its inputs and its outcome
    steps,      \* operations performed so far
    root,       \* Equation.root
    argdict,    \* Equation.argdict: the (name, leaf) items in order
    const,      \* Argument.const of every leaf
    name,       \* Literal.name of every leaf
    script,     \* how many leading operations followed the documented example
    constraint, \* Parameter.constraint: the root of the constraining Equation
    profile     \* Calculator.profile of the Calculator the Contributions share

\* The state of the Equation, the leaf attributes it reads and the record of
\* the example: what the operations on the tree alone leave as it is.
eqvars == << root, argdict, const, name, script, constraint, profile >>

vars == << args, observers, cache, value, obj, swapflag, last, steps,
           root, argdict, const, name, script, constraint, profile >>

\* ------------------------------------------------------------ sequences
RECURSIVE IndexOf(_, _, _)
\* list.index(x): first position of x in s at or after i, 0 when absent.
IndexOf(s, x, i) ==
    IF i > Len(s) THEN 0
    ELSE IF s[i] = x THEN i
    ELSE IndexOf(s, x, i + 1)

Contains(s, x) == \E i \in 1 .. Len(s) : s[i] = x

\* del s[i]
DeleteAt(s, i) == SubSeq(s, 1, i - 1) \o SubSeq(s, i + 1, Len(s))

\* An insertion that forgets the recorded index and appends.
InsertAtEnd(s, i, x) == Append(s, x)

\* s.insert(i - 1, x) in Python's 0-based terms: x ends up at position i.
InsertAt(s, i, x) == SubSeq(s, 1, i - 1) \o << x >> \o SubSeq(s, i, Len(s))

Count(s, x) == Cardinality({i \in 1 .. Len(s) : s[i] = x})

\* ------------------------------------------------ observers and flushing
RECURSIVE Closure(_, _, _)
\* The Operators whose _flush runs when every Operator of S is flushed:
\* _flush clears the cache and notifies, and notify calls the _flush of
\* every observer, so the set is closed under "observers of".
Closure(obs, S, k) ==
    LET T == S \cup UNION {obs[n] : n \in S}
    IN  IF k = 0 \/ T = S THEN S ELSE Closure(obs, T, k - 1)

\* Operators flushed by op._flush(None).
FlushSet(obs, op) == Closure(obs, {op}, Cardinality(Ops))

\* Operators flushed by node.notify().
NotifySet(obs, n) == Closure(obs, obs[n], Cardinality(Ops))

\* A flush that started in S never returns when an Operator it reaches is
\* (transitively) its own observer: _flush and notify then call each other
\* until the interpreter's recursion limit raises.
Unbounded(obs, S) ==
    \E g \in Closure(obs, S, Cardinality(Ops)) : g \in NotifySet(obs, g)

\* Literal._flush: self._value = None, then self.notify().
Flush(st, op) ==
    [st EXCEPT !.cache = [g \in Ops |-> IF g \in FlushSet(st.observers, op)
                                         THEN None ELSE st.cache[g]],
               !.err = IF Unbounded(st.observers, {op})
                       THEN "RecursionError" ELSE st.err]

\* Literal.notify called on a leaf.
Notify(st, n) ==
    [st EXCEPT !.cache = [g \in Ops |-> IF g \in NotifySet(st.observers, n)
                                         THEN None ELSE st.cache[g]],
               !.err = IF Unbounded(st.observers, st.observers[n])
                       THEN "RecursionError" ELSE st.err]

\* Literal.addObserver: the observers are a set.
AddObserver(obs, n, op) == [obs EXCEPT ![n] = @ \cup {op}]

\* Literal.removeObserver as _swapLiteral uses it: the KeyError of a
\* callback that is not registered is caught and ignored.
RemoveObserver(obs, n, op) == [obs EXCEPT ![n] = @ \ {op}]

\* --------------------------------------------------------- the loop check
RECURSIVE LoopCheckFrom(_, _, _, _)
\* Operator._loopCheck: TRUE when it raises ValueError.
LoopCheckFrom(a, self, literal, fuel) ==
    IF literal = self THEN TRUE
    ELSE IF literal \in Ops /\ fuel > 0
         THEN \E i \in 1 .. Len(a[literal]) :
                  LoopCheckFrom(a, self, a[literal][i], fuel - 1)
         ELSE FALSE

\* A loop check that looks at the literal alone and not below it.
LoopCheckShallow(a, self, literal) == literal = self

LoopCheck(a, self, literal) == LoopCheckFrom(a, self, literal, Fuel)

\* The program state the operations work on, with the error raised so far
\* and the number of passes made through the loop of _swapLiteral.
Cur ==
    [args |-> args, observers |-> observers, cache |-> cache,
     value |-> value, obj |-> obj, constraint |-> constraint,
     swap |-> FALSE, err |-> "ok", failed |-> NoNode, done |-> {},
     rounds |-> 0]

\* ------------------------------------------------------------ evaluation
\* What a call returns: the exception raised ("ok" for none), the value
\* returned, the number of times an operation function was invoked, and the
\* caches and the stored leaf values as the call leaves them in c.
Result(e, x, k, c) ==
    [err |-> e, v |-> x, n |-> k, cache |-> c.cache, value |-> c.value]

\* Recursion budget of an evaluation, which also follows the constraints of
\* the leaves: enough for every chain that does not come back to itself.
EvalFuel == Fuel + Cardinality(Leaves)

\* The numpy function behind each operation, on the positional values it is
\* given.  Too few arguments raise ValueError, too many TypeError.
Apply(opn, vals) ==
    LET want == IF opn = "negative" THEN 1 ELSE 2
    IN  IF Len(vals) < want THEN [err |-> "ValueError", v |-> None]
        ELSE IF Len(vals) > want THEN [err |-> "TypeError", v |-> None]
        ELSE IF opn = "add" THEN [err |-> "ok", v |-> Some(vals[1] + vals[2])]
        ELSE IF opn = "subtract"
             THEN [err |-> "ok", v |-> Some(vals[1] - vals[2])]
        ELSE [err |-> "ok", v |-> Some(0 - vals[1])]

\* Argument.getValue: a leaf that has no value raises ValueError.
ArgumentGetValue(st, l) ==
    IF st.value[l] = None THEN Result("ValueError", None, 0, st)
    ELSE Result("ok", st.value[l], 0, st)

\* self.getter(self.obj) of a ParameterWrapper: read through to the wrapped
\* object.
WrapperGetValue(st, l) == Result("ok", Some(st.obj[l]), 0, st)

RECURSIVE OperatorGetValue(_, _, _)
RECURSIVE ChildValues(_, _, _, _, _)
RECURSIVE NodeValue(_, _, _)

\* A getValue that returns the stored value whatever the constraint.
ParameterGetValueStored(st, l, c) == ArgumentGetValue(st, l)

\* Parameter.getValue, c being what self.constraint() came to: with a
\* constraint, its value is assigned to _value first; then
\* Argument.getValue.
ParameterGetValue(st, l, c) ==
    IF st.constraint[l] = NoNode THEN ArgumentGetValue(st, l)
    ELSE IF c.err # "ok" THEN c
    ELSE [ArgumentGetValue(
              [st EXCEPT !.cache = c.cache,
                         !.value = [c.value EXCEPT ![l] = c.v]], l)
          EXCEPT !.n = c.n]

\* A wrapper getValue that returns the _value the wrapper was constructed
\* with.
ParameterWrapperGetValueStored(st, l, c) == ArgumentGetValue(st, l)

\* ParameterWrapper.getValue, c being what self.constraint() came to: the
\* value of the constraint when there is one, else the getter.
ParameterWrapperGetValue(st, l, c) ==
    IF st.constraint[l] # NoNode THEN c ELSE WrapperGetValue(st, l)

\* self.constraint() of a Parameter or wrapper that has a constraint: the
\* constraining Equation called with no values, which returns the value of
\* its root.
ConstraintCall(st, l, fuel) ==
    IF fuel = 0 THEN Result("RecursionError", None, 0, st)
    ELSE NodeValue(st, st.constraint[l], fuel - 1)

\* literal.value for any node.
NodeValue(st, node, fuel) ==
    IF node \in Arguments THEN ArgumentGetValue(st, node)
    ELSE IF node \in Ops THEN OperatorGetValue(st, node, fuel)
    ELSE LET c == IF st.constraint[node] = NoNode
                  THEN Result("ok", None, 0, st)
                  ELSE ConstraintCall(st, node, fuel)
         IN  IF node \in Wrappers THEN ParameterWrapperGetValue(st, node, c)
             ELSE ParameterGetValue(st, node, c)

RECURSIVE ChildValuesUnsetAsZero(_, _, _, _, _)
\* A list of the children's values in which a child that raises ValueError
\* counts as 0.
ChildValuesUnsetAsZero(st, op, i, acc, fuel) ==
    IF i > Len(st.args[op]) THEN [err |-> "ok", vals |-> acc, n |-> 0,
                                  cache |-> st.cache, value |-> st.value]
    ELSE LET r == NodeValue(st, st.args[op][i], fuel)
         IN  IF r.err \notin {"ok", "ValueError"}
             THEN [err |-> r.err, vals |-> acc, n |-> r.n, cache |-> r.cache,
                   value |-> r.value]
             ELSE LET x == IF r.err = "ok" THEN r.v[1] ELSE 0
                      rest == ChildValuesUnsetAsZero(
                                  [st EXCEPT !.cache = r.cache,
                                             !.value = r.value], op, i + 1,
                                  Append(acc, x), fuel)
                  IN  [rest EXCEPT !.n = @ + r.n]

\* vals = [l.value for l in self.args], left to right from child i on; the
\* first child that raises ends the evaluation.
ChildValues(st, op, i, acc, fuel) ==
    IF i > Len(st.args[op]) THEN [err |-> "ok", vals |-> acc, n |-> 0,
                                  cache |-> st.cache, value |-> st.value]
    ELSE LET r == NodeValue(st, st.args[op][i], fuel)
         IN  IF r.err # "ok"
             THEN [err |-> r.err, vals |-> acc, n |-> r.n, cache |-> r.cache,
                   value |-> r.value]
             ELSE LET rest == ChildValues([st EXCEPT !.cache = r.cache,
                                                     !.value = r.value], op,
                                          i + 1, Append(acc, r.v[1]), fuel)
                  IN  [rest EXCEPT !.n = @ + r.n]

Reverse(s) == [i \in 1 .. Len(s) |-> s[Len(s) + 1 - i]]

\* A getValue that hands the children's values over right to left.
OperatorGetValueReversed(st, op, fuel) ==
    IF st.cache[op] # None THEN Result("ok", st.cache[op], 0, st)
    ELSE IF fuel = 0 THEN Result("RecursionError", None, 0, st)
    ELSE LET r == ChildValues(st, op, 1, << >>, fuel - 1)
         IN  IF r.err # "ok" THEN Result(r.err, None, r.n, r)
             ELSE LET ap == Apply(operation[op], Reverse(r.vals))
                  IN  Result(ap.err, ap.v, r.n + 1, r)

\* A getValue that evaluates the children whatever _value holds.
OperatorGetValueUncached(st, op, fuel) ==
    IF fuel = 0 THEN Result("RecursionError", None, 0, st)
    ELSE LET r == ChildValues(st, op, 1, << >>, fuel - 1)
         IN  IF r.err # "ok" THEN Result(r.err, None, r.n, r)
             ELSE LET ap == Apply(operation[op], r.vals)
                  IN  Result(ap.err, ap.v, r.n + 1, r)

\* Operator.getValue: the cached _value when there is one, else the
\* operation applied to the children's values.  The result is returned and
\* not assigned to _value.
OperatorGetValue(st, op, fuel) ==
    IF st.cache[op] # None THEN Result("ok", st.cache[op], 0, st)
    ELSE IF fuel = 0 THEN Result("RecursionError", None, 0, st)
    ELSE LET r == ChildValues(st, op, 1, << >>, fuel - 1)
         IN  IF r.err # "ok" THEN Result(r.err, None, r.n, r)
             ELSE LET ap == Apply(operation[op], r.vals)
                  IN  Result(ap.err, ap.v, r.n + 1, r)

\* ------------------------------------------------------------- _swapLiteral
\* The node _swapLiteral registers op._flush with after it has inserted
\* newlit (swapper.py line 121 names oldlit).
SwapObserved(oldlit, newlit) == oldlit

RECURSIVE SwapLoopUnchecked(_, _, _, _)
\* A replacement loop that skips the validation of newlit.
SwapLoopUnchecked(st, op, oldlit, newlit) ==
    IF ~Contains(st.args[op], oldlit) THEN st
    ELSE LET idx == IndexOf(st.args[op], oldlit, 1)
             a2 == [st.args EXCEPT ![op] = InsertAt(DeleteAt(@, idx), idx, newlit)]
             o2 == AddObserver(RemoveObserver(st.observers, oldlit, op),
                               SwapObserved(oldlit, newlit), op)
             s3 == Flush([st EXCEPT !.args = a2, !.observers = o2,
                                    !.done = @ \cup {op},
                                             !.rounds = @ + 1], op)
         IN  IF s3.err # "ok" THEN [s3 EXCEPT !.failed = op]
             ELSE SwapLoopUnchecked(s3, op, oldlit, newlit)

RECURSIVE SwapLoopNoRestore(_, _, _, _)
\* A replacement loop that, when the validation fails, raises without
\* putting oldlit back.
SwapLoopNoRestore(st, op, oldlit, newlit) ==
    IF ~Contains(st.args[op], oldlit) THEN st
    ELSE LET idx == IndexOf(st.args[op], oldlit, 1)
             a1 == [st.args EXCEPT ![op] = DeleteAt(@, idx)]
             o1 == RemoveObserver(st.observers, oldlit, op)
         IN  IF LoopCheck(a1, op, newlit)
             THEN [st EXCEPT !.args = a1, !.observers = o1,
                             !.err = "ValueError", !.failed = op]
             ELSE LET a2 == [a1 EXCEPT ![op] = InsertAt(@, idx, newlit)]
                      o2 == AddObserver(o1, SwapObserved(oldlit, newlit), op)
                      s3 == Flush([st EXCEPT !.args = a2, !.observers = o2,
                                             !.done = @ \cup {op},
                                             !.rounds = @ + 1], op)
                  IN  IF s3.err # "ok" THEN [s3 EXCEPT !.failed = op]
                      ELSE SwapLoopNoRestore(s3, op, oldlit, newlit)

RECURSIVE SwapLoopRestoreUnobserved(_, _, _, _)
\* A replacement loop that, when the validation fails, puts oldlit back at
\* its index and does not register the Operator with it again.
SwapLoopRestoreUnobserved(st, op, oldlit, newlit) ==
    IF ~Contains(st.args[op], oldlit) THEN st
    ELSE LET idx == IndexOf(st.args[op], oldlit, 1)
             a1 == [st.args EXCEPT ![op] = DeleteAt(@, idx)]
             o1 == RemoveObserver(st.observers, oldlit, op)
         IN  IF LoopCheck(a1, op, newlit)
             THEN [st EXCEPT !.args = [a1 EXCEPT ![op] = InsertAt(@, idx, oldlit)],
                             !.observers = o1,
                             !.err = "ValueError",
                             !.failed = op]
             ELSE LET a2 == [a1 EXCEPT ![op] = InsertAt(@, idx, newlit)]
                      o2 == AddObserver(o1, SwapObserved(oldlit, newlit), op)
                      s3 == Flush([st EXCEPT !.args = a2, !.observers = o2,
                                             !.done = @ \cup {op},
                                             !.rounds = @ + 1], op)
                  IN  IF s3.err # "ok" THEN [s3 EXCEPT !.failed = op]
                      ELSE SwapLoopRestoreUnobserved(s3, op, oldlit, newlit)

\* A replacement that makes one pass where the loop makes one per
\* occurrence: the first occurrence of oldlit is replaced and the others
\* stay.
SwapLoopOnce(st, op, oldlit, newlit) ==
    IF ~Contains(st.args[op], oldlit) THEN st
    ELSE LET idx == IndexOf(st.args[op], oldlit, 1)
             a1 == [st.args EXCEPT ![op] = DeleteAt(@, idx)]
             o1 == RemoveObserver(st.observers, oldlit, op)
         IN  IF LoopCheck(a1, op, newlit)
             THEN [st EXCEPT !.args = [a1 EXCEPT ![op] = InsertAt(@, idx, oldlit)],
                             !.observers = AddObserver(o1, oldlit, op),
                             !.err = "ValueError",
                             !.failed = op,
                             !.rounds = @ + 1]
             ELSE LET a2 == [a1 EXCEPT ![op] = InsertAt(@, idx, newlit)]
                      o2 == AddObserver(o1, SwapObserved(oldlit, newlit), op)
                      s3 == Flush([st EXCEPT !.args = a2, !.observers = o2,
                                             !.done = @ \cup {op},
                                             !.rounds = @ + 1], op)
                  IN  IF s3.err # "ok" THEN [s3 EXCEPT !.failed = op]
                      ELSE s3

RECURSIVE SwapLoop(_, _, _, _)
\* The while loop of _swapLiteral, one occurrence of oldlit per round.
SwapLoop(st, op, oldlit, newlit) ==
    IF ~Contains(st.args[op], oldlit) THEN st
    ELSE LET idx == IndexOf(st.args[op], oldlit, 1)
             a1 == [st.args EXCEPT ![op] = DeleteAt(@, idx)]
             o1 == RemoveObserver(st.observers, oldlit, op)
         IN  IF LoopCheck(a1, op, newlit)
             THEN [st EXCEPT !.args = [a1 EXCEPT ![op] = InsertAt(@, idx, oldlit)],
                             !.observers = AddObserver(o1, oldlit, op),
                             !.err = "ValueError",
                             !.failed = op,
                             !.rounds = @ + 1]
             ELSE LET a2 == [a1 EXCEPT ![op] = InsertAt(@, idx, newlit)]
                      o2 == AddObserver(o1, SwapObserved(oldlit, newlit), op)
                      s3 == Flush([st EXCEPT !.args = a2, !.observers = o2,
                                             !.done = @ \cup {op},
                                             !.rounds = @ + 1], op)
                  IN  IF s3.err # "ok" THEN [s3 EXCEPT !.failed = op]
                      ELSE SwapLoop(s3, op, oldlit, newlit)

\* A _swapLiteral without the identity test: it takes the first occurrence
\* of oldlit out and puts newlit in even when the two are one node.
SwapLiteralNoIdentityTest(st, op, oldlit, newlit) ==
    IF oldlit # newlit THEN SwapLoop(st, op, oldlit, newlit)
    ELSE IF ~Contains(st.args[op], oldlit) THEN st
    ELSE LET idx == IndexOf(st.args[op], oldlit, 1)
             a2 == [st.args EXCEPT ![op] = InsertAt(DeleteAt(@, idx), idx, newlit)]
             o2 == AddObserver(RemoveObserver(st.observers, oldlit, op),
                               newlit, op)
         IN  Flush([st EXCEPT !.args = a2, !.observers = o2,
                              !.done = @ \cup {op},
                                             !.rounds = @ + 1], op)

\* _swapLiteral(op, oldlit, newlit)
SwapLiteral(st, op, oldlit, newlit) ==
    IF oldlit = newlit THEN st ELSE SwapLoop(st, op, oldlit, newlit)

\* ------------------------------------------------------------------ Swapper
RECURSIVE Identify(_, _, _, _, _)
RECURSIVE VisitArgs(_, _, _, _, _, _)

\* Swapper.onArgument
OnArgument(st, arg, oldlit) ==
    IF arg = oldlit THEN [st EXCEPT !.swap = TRUE] ELSE st

\* "for literal in op.args: literal.identify(self)", from child i on.
VisitArgs(st, op, i, oldlit, newlit, fuel) ==
    IF st.err # "ok" \/ i > Len(st.args[op]) THEN st
    ELSE VisitArgs(Identify(st, st.args[op][i], oldlit, newlit, fuel),
                   op, i + 1, oldlit, newlit, fuel)

\* An onOperator that does not tell its caller when the Operator it has
\* visited is oldlit.
OnOperatorNoSignal(st, op, oldlit, newlit, fuel) ==
    IF fuel = 0 THEN [st EXCEPT !.err = "RecursionError", !.failed = op]
    ELSE
    LET s1 == VisitArgs(st, op, 1, oldlit, newlit, fuel - 1)
    IN  IF s1.err # "ok" \/ ~s1.swap THEN s1
        ELSE LET s == IF Contains(s1.args[op], oldlit)
                      THEN SwapLiteral(s1, op, oldlit, newlit)
                      ELSE s1
             IN  IF s.err # "ok" THEN s ELSE [s EXCEPT !.swap = FALSE]

\* Swapper.onOperator
OnOperator(st, op, oldlit, newlit, fuel) ==
    IF fuel = 0 THEN [st EXCEPT !.err = "RecursionError", !.failed = op]
    ELSE
    LET s1 == VisitArgs(st, op, 1, oldlit, newlit, fuel - 1)
        s2 == IF s1.err # "ok" \/ ~s1.swap THEN s1
              ELSE LET s == IF Contains(s1.args[op], oldlit)
                            THEN SwapLiteral(s1, op, oldlit, newlit)
                            ELSE s1
                   IN  IF s.err # "ok" THEN s ELSE [s EXCEPT !.swap = FALSE]
    IN  IF s2.err # "ok" THEN s2
        ELSE IF op = oldlit THEN [s2 EXCEPT !.swap = TRUE]
        ELSE s2

\* literal.identify(swapper): double dispatch on the node kind.
Identify(st, node, oldlit, newlit, fuel) ==
    IF node \in Leaves THEN OnArgument(st, node, oldlit)
    ELSE OnOperator(st, node, oldlit, newlit, fuel)

\* ------------------------------------------------------------------ actions
\* What an operation did.  For a setValue, chg tells whether the value
\* differed and seen is the value the leaf held while its observers were
\* being notified.
Outcome(call, f, x, y, e, val, k, fl, dn) ==
    [op |-> call, f |-> f, x |-> x, y |-> y, err |-> e, v |-> val, n |-> k,
     failed |-> fl, done |-> dn, chg |-> FALSE, seen |-> None]

\* The Operators that have node among their args.
Parents(a, node) == {o \in Ops : Contains(a[o], node)}

\* The trees a behaviour starts from, as addLiteral calls assemble them
\* before the tree is used: no tree at all, one Operator over two leaves,
\* a leaf followed by an Operator sibling, one leaf shared by two parents,
\* and a chain three Operators deep with a leaf that occurs twice.
InitTrees ==
    { [o \in Ops |-> << >>],
      [o \in Ops |-> IF o = "F" THEN << "a", "w" >> ELSE << >>],
      [o \in Ops |-> CASE o = "F" -> << "a", "G" >>
                       [] o = "G" -> << "w", "a" >>
                       [] OTHER   -> << >>],
      [o \in Ops |-> CASE o = "F" -> << "G", "H" >>
                       [] o = "G" -> << "a", "w" >>
                       [] OTHER   -> << "a" >>],
      [o \in Ops |-> CASE o = "F" -> << "w", "G" >>
                       [] o = "G" -> << "H", "H" >>
                       [] OTHER   -> << "a" >>] }

\* The record of the example when the behaviour is not an instance of it.
NotFollowed == 0 - 1

Init ==
    /\ args \in InitTrees
    /\ observers = [n \in Nodes |-> Parents(args, n)]
    /\ cache = [o \in Ops |-> None]
    /\ value \in [Arguments -> {None, Some(0)}]
    /\ obj = [l \in Wrappers |-> 0]
    /\ swapflag = FALSE
    /\ last = Outcome("init", NoNode, NoNode, NoNode, "ok", None, 0, NoNode, {})
    /\ steps = 0
    /\ root = NoNode
    /\ argdict = << >>
    /\ const = [l \in Leaves |-> FALSE]
    /\ name = [l \in Leaves |-> l]
    /\ script = NotFollowed
    /\ constraint = [l \in Parameters \cup Wrappers |-> NoNode]
    /\ profile = NoNode

\* An addLiteral that puts the literal in front of the children.
AddLiteralAtFront(self, literal) ==
    /\ steps < MaxSteps
    /\ Len(args[self]) < MaxArgs
    /\ steps' = steps + 1
    /\ IF LoopCheck(args, self, literal)
       THEN /\ last' = Outcome("addLiteral", self, literal, NoNode,
                               "ValueError", None, 0, self, {})
            /\ UNCHANGED << args, observers, cache >>
       ELSE LET s1 == [Cur EXCEPT !.args[self] = << literal >> \o @,
                                  !.observers = AddObserver(@, literal, self)]
                s2 == Flush(s1, self)
            IN  /\ args' = s2.args
                /\ observers' = s2.observers
                /\ cache' = s2.cache
                /\ last' = Outcome("addLiteral", self, literal, NoNode,
                                   s2.err, None, 0, NoNode, {})
    /\ UNCHANGED << value, obj, swapflag >>
    /\ UNCHANGED eqvars

\* Operator.addLiteral(literal)
AddLiteral(self, literal) ==
    /\ steps < MaxSteps
    /\ Len(args[self]) < MaxArgs
    /\ steps' = steps + 1
    /\ IF LoopCheck(args, self, literal)
       THEN /\ last' = Outcome("addLiteral", self, literal, NoNode,
                               "ValueError", None, 0, self, {})
            /\ UNCHANGED << args, observers, cache >>
       ELSE LET s1 == [Cur EXCEPT !.args[self] = Append(@, literal),
                                  !.observers = AddObserver(@, literal, self)]
                s2 == Flush(s1, self)
            IN  /\ args' = s2.args
                /\ observers' = s2.observers
                /\ cache' = s2.cache
                /\ last' = Outcome("addLiteral", self, literal, NoNode,
                                   s2.err, None, 0, NoNode, {})
    /\ UNCHANGED << value, obj, swapflag >>
    /\ UNCHANGED eqvars

\* Argument.setValue(val): notify the observers when val differs from the
\* stored value, then store it.
ArgumentSetValue(l, val) ==
    /\ l \in Arguments
    /\ steps < MaxSteps
    /\ steps' = steps + 1
    /\ IF val # value[l]
       THEN LET s1 == Notify(Cur, l)
            IN  /\ cache' = s1.cache
                /\ value' = IF s1.err = "ok" THEN [value EXCEPT ![l] = val]
                            ELSE value
                /\ last' = [Outcome("setValue", l, NoNode, NoNode, s1.err,
                                    val,
                                    Cardinality(NotifySet(observers, l)),
                                    NoNode, {})
                            EXCEPT !.chg = TRUE, !.seen = s1.value[l]]
       ELSE /\ UNCHANGED << cache, value >>
            /\ last' = Outcome("setValue", l, NoNode, NoNode, "ok", val, 0,
                               NoNode, {})
    /\ UNCHANGED << args, observers, obj, swapflag >>
    /\ UNCHANGED eqvars

\* A wrapper setValue that notifies and never calls the setter.
WrapperSetValueNoStore(l, val) ==
    /\ l \in Wrappers
    /\ steps < MaxSteps
    /\ steps' = steps + 1
    /\ LET changed == Some(val) # WrapperGetValue(Cur, l).v
           s1 == IF changed THEN Notify(Cur, l) ELSE Cur
       IN  /\ cache' = s1.cache
           /\ last' = [Outcome("setValue", l, NoNode, NoNode, s1.err,
                               Some(val),
                               IF changed
                               THEN Cardinality(NotifySet(observers, l))
                               ELSE 0,
                               NoNode, {}) EXCEPT !.chg = changed]
    /\ UNCHANGED << args, observers, value, obj, swapflag >>
    /\ UNCHANGED eqvars

\* A wrapper setValue that notifies without comparing the values.
WrapperSetValueAlways(l, val) ==
    /\ l \in Wrappers
    /\ steps < MaxSteps
    /\ steps' = steps + 1
    /\ LET s1 == Notify(Cur, l)
       IN  /\ cache' = s1.cache
           /\ obj' = IF s1.err = "ok" THEN [obj EXCEPT ![l] = val] ELSE obj
           /\ last' = [Outcome("setValue", l, NoNode, NoNode, s1.err,
                               Some(val),
                               Cardinality(NotifySet(observers, l)),
                               NoNode, {})
                       EXCEPT !.chg = Some(val) # WrapperGetValue(Cur, l).v]
    /\ UNCHANGED << args, observers, value, swapflag >>
    /\ UNCHANGED eqvars

\* A wrapper setValue that calls the setter first and notifies afterwards.
WrapperSetValueStoreFirst(l, val) ==
    /\ l \in Wrappers
    /\ steps < MaxSteps
    /\ steps' = steps + 1
    /\ IF constraint[l] # NoNode
       THEN /\ UNCHANGED << cache, obj >>
            /\ last' = Outcome("setValue", l, NoNode, NoNode, "AttributeError",
                               Some(val), 0, NoNode, {})
       ELSE IF Some(val) # WrapperGetValue(Cur, l).v
       THEN LET s1 == Notify([Cur EXCEPT !.obj = [@ EXCEPT ![l] = val]], l)
            IN  /\ cache' = s1.cache
                /\ obj' = s1.obj
                /\ last' = [Outcome("setValue", l, NoNode, NoNode, s1.err,
                                    Some(val),
                                    Cardinality(NotifySet(observers, l)),
                                    NoNode, {})
                            EXCEPT !.chg = TRUE,
                                   !.seen = WrapperGetValue(s1, l).v]
       ELSE /\ UNCHANGED << cache, obj >>
            /\ last' = Outcome("setValue", l, NoNode, NoNode, "ok", Some(val),
                               0, NoNode, {})
    /\ UNCHANGED << args, observers, value, swapflag >>
    /\ UNCHANGED eqvars

\* ParameterWrapper.setValue(value)
WrapperSetValue(l, val) ==
    /\ l \in Wrappers
    /\ steps < MaxSteps
    /\ steps' = steps + 1
    /\ IF constraint[l] # NoNode
       THEN /\ UNCHANGED << cache, obj >>
            /\ last' = Outcome("setValue", l, NoNode, NoNode, "AttributeError",
                               Some(val), 0, NoNode, {})
       ELSE IF Some(val) # WrapperGetValue(Cur, l).v
       THEN LET s1 == Notify(Cur, l)
            IN  /\ cache' = s1.cache
                /\ obj' = IF s1.err = "ok" THEN [obj EXCEPT ![l] = val]
                          ELSE obj
                /\ last' = [Outcome("setValue", l, NoNode, NoNode, s1.err,
                                    Some(val),
                                    Cardinality(NotifySet(observers, l)),
                                    NoNode, {})
                            EXCEPT !.chg = TRUE,
                                   !.seen = WrapperGetValue(s1, l).v]
       ELSE /\ UNCHANGED << cache, obj >>
            /\ last' = Outcome("setValue", l, NoNode, NoNode, "ok", Some(val),
                               0, NoNode, {})
    /\ UNCHANGED << args, observers, value, swapflag >>
    /\ UNCHANGED eqvars

\* node.getValue()
GetValue(node) ==
    /\ steps < MaxSteps
    /\ steps' = steps + 1
    /\ LET r == NodeValue(Cur, node, EvalFuel)
       IN  /\ cache' = r.cache
           /\ value' = r.value
           /\ last' = Outcome("getValue", node, NoNode, NoNode, r.err, r.v,
                              r.n, NoNode, {})
    /\ UNCHANGED << args, observers, obj, swapflag >>
    /\ UNCHANGED eqvars

RECURSIVE Below(_, _, _)
\* The nodes of the tree under node, node included.
Below(a, node, fuel) ==
    IF node \in Leaves \/ fuel = 0 THEN {node}
    ELSE {node} \cup UNION {Below(a, a[node][i], fuel - 1) : i \in 1 .. Len(a[node])}

\* top.identify(Swapper(oldlit, newlit)).  oldlit is drawn among the nodes
\* of the tree under top: for any other oldlit the walk changes nothing.
Swap(top, oldlit, newlit) ==
    /\ steps < MaxSteps
    /\ oldlit \in Below(args, top, Fuel)
    /\ steps' = steps + 1
    /\ LET r == Identify(Cur, top, oldlit, newlit, Fuel)
       IN  /\ args' = r.args
           /\ observers' = r.observers
           /\ cache' = r.cache
           /\ swapflag' = r.swap
           /\ last' = Outcome("swap", top, oldlit, newlit, r.err, None,
                              r.rounds, r.failed, r.done)
    /\ UNCHANGED << value, obj >>
    /\ UNCHANGED eqvars

Next ==
    \/ \E f \in Ops, n \in TreeNodes : AddLiteral(f, n)
    \/ \E l \in Arguments, v \in OptVals : ArgumentSetValue(l, v)
    \/ \E l \in Wrappers, v \in Vals : WrapperSetValue(l, v)
    \/ \E n \in Ops : GetValue(n)
    \/ \E r \in Ops, o \in TreeNodes, n \in TreeNodes : Swap(r, o, n)

Spec == Init /\ [][Next]_vars

\* ================================================================== Equation
\* The number of values, positional and named together, one call is given.
MaxBind == 2

\* The leaves and their values in the documented example: a = 1, b = 4 under
\* an AdditionOperator, and a leaf c = 100 outside the tree.
ExampleValues == [a |-> Some(1), b |-> Some(4), c |-> Some(100)]
ExampleLeaves == DOMAIN ExampleValues
\* The values the calls and the direct assignments hand over.
CallVals == {10}
\* The keyword names the calls use; no leaf is named "z".
KwNames == {"a", "b", "z"}

\* The tuples of at most n positional values.
PosChoices(n) == UNION {[1 .. k -> CallVals] : k \in 0 .. n}

\* The keyword arguments of a call, as kw.items() hands them over: at most n
\* (name, value) pairs of different names, in any order.
KwChoices(n) ==
    UNION {{s \in [1 .. k -> KwNames \X CallVals] :
               \A i, j \in 1 .. k : i # j => s[i][1] # s[j][1]} : k \in 0 .. n}

RECURSIVE ValidateFrom(_, _, _)
\* validate(root): TRUE when it raises ValueError, which it does when one
\* Operator is met twice along a downward path.
ValidateFrom(a, node, path) ==
    IF node \notin Ops THEN FALSE
    ELSE IF node \in path THEN TRUE
    ELSE \E i \in 1 .. Len(a[node]) :
             ValidateFrom(a, a[node][i], path \cup {node})

Validate(a, node) == ValidateFrom(a, node, {})

RECURSIVE Collect(_, _, _, _)
RECURSIVE CollectArgs(_, _, _, _, _)
\* The leaves below node added to acc in first-encountered order, leftmost
\* and depth first, every leaf once.
Collect(a, node, acc, fuel) ==
    IF node \in Leaves
    THEN IF Contains(acc, node) THEN acc ELSE Append(acc, node)
    ELSE IF node \notin Ops \/ fuel = 0 THEN acc
    ELSE CollectArgs(a, node, 1, acc, fuel - 1)

CollectArgs(a, op, i, acc, fuel) ==
    IF i > Len(a[op]) THEN acc
    ELSE CollectArgs(a, op, i + 1, Collect(a, a[op][i], acc, fuel), fuel)

\* findArgs(root, getconsts)
FindArgs(a, cst, node, getconsts) ==
    SelectSeq(Collect(a, node, << >>, Fuel), LAMBDA l : getconsts \/ ~cst[l])

\* An assignment that adds an item whether or not the key is present.
DictPutKeepAll(d, k, v) == Append(d, << k, v >>)

\* d[k] = v on an OrderedDict: a key that is present keeps its position.
DictPut(d, k, v) ==
    IF \E i \in 1 .. Len(d) : d[i][1] = k
    THEN [i \in 1 .. Len(d) |-> IF d[i][1] = k THEN << k, v >> ELSE d[i]]
    ELSE Append(d, << k, v >>)

RECURSIVE MakeDictLastFirst(_, _, _)
\* A mapping built from the last leaf of the list to the first.
MakeDictLastFirst(nm, leaves, d) ==
    IF leaves = << >> THEN d
    ELSE LET l == leaves[Len(leaves)]
         IN  MakeDictLastFirst(nm, SubSeq(leaves, 1, Len(leaves) - 1),
                               DictPut(d, nm[l], l))

RECURSIVE MakeDict(_, _, _)
\* OrderedDict([(arg.name, arg) for arg in args])
MakeDict(nm, leaves, d) ==
    IF leaves = << >> THEN d
    ELSE MakeDict(nm, Tail(leaves), DictPut(d, nm[Head(leaves)], Head(leaves)))

\* argdict.get(name): NoNode stands for None.
DictGet(d, k) ==
    IF \E i \in 1 .. Len(d) : d[i][1] = k
    THEN d[CHOOSE i \in 1 .. Len(d) : d[i][1] = k][2]
    ELSE NoNode

\* argdict.values()
DictValues(d) == [i \in 1 .. Len(d) |-> d[i][2]]

\* The state an Equation method works on: the tree, the Equation's own
\* attributes, the leaves the call has bound so far, the stage the call is
\* in and the value it returns, and the Profile the Calculator holds.
EqCur ==
    [args |-> args, observers |-> observers, cache |-> cache,
     value |-> value, obj |-> obj, constraint |-> constraint,
     swap |-> FALSE, err |-> "ok", failed |-> NoNode, done |-> {},
     rounds |-> 0, root |-> root, argdict |-> argdict, const |-> const,
     bound |-> << >>, at |-> "start", v |-> None, profile |-> profile]

\* A setValue that does not look at the constraint.
LeafSetValueUnguarded(st, l, val) ==
    IF l \in Wrappers
    THEN IF val # WrapperGetValue(st, l).v
         THEN LET s1 == Notify(st, l)
              IN  IF s1.err # "ok" THEN s1
                  ELSE [s1 EXCEPT !.obj = [@ EXCEPT ![l] = val[1]]]
         ELSE st
    ELSE IF val # st.value[l]
         THEN LET s1 == Notify(st, l)
              IN  IF s1.err # "ok" THEN s1
                  ELSE [s1 EXCEPT !.value = [@ EXCEPT ![l] = val]]
         ELSE st

\* leaf.setValue(val) for any kind of leaf: a Parameter or a wrapper that
\* has a constraint raises AttributeError; otherwise notify when val differs
\* from the current value, then store it (in the wrapped object for a
\* wrapper).
LeafSetValue(st, l, val) ==
    IF l \notin Arguments /\ st.constraint[l] # NoNode
    THEN [st EXCEPT !.err = "AttributeError"]
    ELSE IF l \in Wrappers
    THEN IF val # WrapperGetValue(st, l).v
         THEN LET s1 == Notify(st, l)
              IN  IF s1.err # "ok" THEN s1
                  ELSE [s1 EXCEPT !.obj = [@ EXCEPT ![l] = val[1]]]
         ELSE st
    ELSE IF val # st.value[l]
         THEN LET s1 == Notify(st, l)
              IN  IF s1.err # "ok" THEN s1
                  ELSE [s1 EXCEPT !.value = [@ EXCEPT ![l] = val]]
         ELSE st

\* Equation.setRoot(root)
EquationSetRoot(st, node) ==
    IF Validate(st.args, node) THEN [st EXCEPT !.err = "ValueError"]
    ELSE [st EXCEPT !.root = node,
                    !.argdict = MakeDict(name,
                                    FindArgs(st.args, st.const, node, FALSE),
                                    << >>)]

\* visitors.swap(rule, oldlit, newlit): the replacement of the root itself
\* is rejected before the Swapper is started, any other oldlit is handed to
\* a Swapper started on the root.
VisitorsSwap(st, oldlit, newlit) ==
    IF st.root = NoNode THEN [st EXCEPT !.err = "AttributeError"]
    ELSE IF st.root = oldlit THEN [st EXCEPT !.err = "ValueError"]
    ELSE Identify(st, st.root, oldlit, newlit, Fuel)

\* An Equation.swap that leaves the mapping as setRoot built it before.
EquationSwapNoSetRoot(st, oldlit, newlit) ==
    VisitorsSwap(st, oldlit, newlit)

\* Equation.swap(oldlit, newlit)
EquationSwap(st, oldlit, newlit) ==
    LET s1 == VisitorsSwap(st, oldlit, newlit)
    IN  IF s1.err # "ok" THEN s1 ELSE EquationSetRoot(s1, s1.root)

\* A binding that notes the leaf as bound and never calls its setValue.
BindNothing(st, l, val) == [st EXCEPT !.bound = Append(@, l)]

\* arg.setValue(val) as __call__ makes it, with the leaf noted as bound.
Bind(st, l, val) ==
    LET s1 == LeafSetValue(st, l, Some(val))
    IN  IF s1.err # "ok" THEN s1 ELSE [s1 EXCEPT !.bound = Append(@, l)]

RECURSIVE BindPos(_, _, _)
\* "for idx, val in enumerate(args)", from the i-th value on (idx = i - 1):
\* self.args[idx] raises IndexError when idx = len(self.argdict).
BindPos(st, pos, i) ==
    IF st.err # "ok" \/ i > Len(pos) THEN st
    ELSE IF i - 1 > Len(st.argdict) THEN [st EXCEPT !.err = "ValueError"]
    ELSE IF i > Len(st.argdict) THEN [st EXCEPT !.err = "IndexError"]
    ELSE BindPos(Bind(st, DictValues(st.argdict)[i], pos[i]), pos, i + 1)

RECURSIVE BindKw(_, _, _)
\* "for name, val in kw.items()", from the i-th item on.
BindKw(st, kw, i) ==
    IF st.err # "ok" \/ i > Len(kw) THEN st
    ELSE LET arg == DictGet(st.argdict, kw[i][1])
         IN  IF arg = NoNode THEN [st EXCEPT !.err = "ValueError"]
             ELSE BindKw(Bind(st, arg, kw[i][2]), kw, i + 1)

\* self.root.getValue() at the end of __call__.
EvalRoot(st) ==
    IF st.root = NoNode THEN [st EXCEPT !.err = "AttributeError", !.at = "eval"]
    ELSE LET r == NodeValue(st, st.root, EvalFuel)
         IN  [st EXCEPT !.err = r.err, !.v = r.v, !.cache = r.cache,
                        !.value = r.value, !.at = "eval"]

\* A __call__ that evaluates the root first and binds the values afterwards.
EquationCallEvalFirst(st, pos, kw) ==
    LET s0 == EvalRoot(st)
        s1 == BindPos([s0 EXCEPT !.at = "pos"], pos, 1)
        s2 == IF s1.err # "ok" THEN s1
              ELSE BindKw([s1 EXCEPT !.at = "kw"], kw, 1)
    IN  IF s2.err # "ok" THEN [s2 EXCEPT !.v = None]
        ELSE [s2 EXCEPT !.at = "eval"]

\* A __call__ that puts the leaf values back when a binding raises.
EquationCallRollback(st, pos, kw) ==
    LET s1 == BindPos([st EXCEPT !.at = "pos"], pos, 1)
        s2 == IF s1.err # "ok" THEN s1
              ELSE BindKw([s1 EXCEPT !.at = "kw"], kw, 1)
    IN  IF s2.err # "ok" THEN [s2 EXCEPT !.value = st.value, !.obj = st.obj]
        ELSE EvalRoot(s2)

\* A __call__ that binds the named values first and the positional values
\* afterwards.
EquationCallKwFirst(st, pos, kw) ==
    LET s1 == BindKw([st EXCEPT !.at = "kw"], kw, 1)
        s2 == IF s1.err # "ok" THEN s1
              ELSE BindPos([s1 EXCEPT !.at = "pos"], pos, 1)
    IN  IF s2.err # "ok" THEN s2 ELSE EvalRoot(s2)

\* Equation.__call__(*args, **kw)
EquationCall(st, pos, kw) ==
    LET s1 == BindPos([st EXCEPT !.at = "pos"], pos, 1)
        s2 == IF s1.err # "ok" THEN s1
              ELSE BindKw([s1 EXCEPT !.at = "kw"], kw, 1)
    IN  IF s2.err # "ok" THEN s2 ELSE EvalRoot(s2)

\* -------------------------------------------------------- Equation actions
\* What an Equation method did: the fields of Outcome, and the values the
\* call was given, the leaves it bound and the stage it ended in.
EqOutcome(call, x, y, pos, kw, r) ==
    [op |-> call, f |-> NoNode, x |-> x, y |-> y, err |-> r.err, v |-> r.v,
     n |-> Len(pos), failed |-> r.failed, done |-> r.done, chg |-> FALSE,
     seen |-> None, pos |-> pos, kw |-> kw, bound |-> r.bound, at |-> r.at]

\* One operation on the Equation, as the example lists them.
Event(call, x, y, pos, kw) ==
    [op |-> call, x |-> x, y |-> y, pos |-> pos, kw |-> kw]

\* The documented example: eq(), eq(a=10), eq.swap(b, c), eq().
Example ==
    << Event("call", NoNode, NoNode, << >>, << >>),
       Event("call", NoNode, NoNode, << >>, << << "a", 10 >> >>),
       Event("eqswap", "b", "c", << >>, << >>),
       Event("call", NoNode, NoNode, << >>, << >>) >>

\* The record of the example after one more operation.
Follow(ev) ==
    IF script = steps /\ steps < Len(Example) /\ Example[steps + 1] = ev
    THEN script + 1 ELSE script

\* The trees an Equation is built over: the example's add(a, b) with a
\* negation of c beside it, a leaf followed by an Operator sibling that
\* holds it again, and a negation under a subtraction.
EqTrees ==
    { [o \in Ops |-> CASE o = "G" -> << "a", "b" >>
                       [] o = "H" -> << "c" >>
                       [] OTHER   -> << >>],
      [o \in Ops |-> CASE o = "F" -> << "a", "G" >>
                       [] o = "G" -> << "b", "a" >>
                       [] OTHER   -> << >>],
      [o \in Ops |-> CASE o = "F" -> << "H", "b" >>
                       [] o = "H" -> << "a" >>
                       [] OTHER   -> << >>] }

\* The Operator an Equation over the tree is rooted at.
TopOf(a) == IF a["F"] # << >> THEN "F" ELSE "G"

\* The tree and the leaf values of the example before its first call.
ExampleStart ==
    /\ args = [o \in Ops |-> CASE o = "G" -> << "a", "b" >>
                               [] o = "H" -> << "c" >>
                               [] OTHER   -> << >>]
    /\ root = "G"

\* Equation.__init__(root): Equation() on the example's tree, or
\* Equation(root = top) on any of the trees.
EqInit ==
    /\ args \in EqTrees
    /\ observers = [n \in Nodes |-> Parents(args, n)]
    /\ cache = [o \in Ops |-> None]
    /\ value = ExampleValues
    /\ obj = [l \in Wrappers |-> 0]
    /\ swapflag = FALSE
    /\ last = Outcome("init", NoNode, NoNode, NoNode, "ok", None, 0, NoNode, {})
    /\ steps = 0
    /\ const = [l \in Leaves |-> FALSE]
    /\ name = [l \in Leaves |-> l]
    /\ root \in {TopOf(args)} \cup (IF TopOf(args) = "G" THEN {NoNode} ELSE {})
    /\ argdict = IF root = NoNode THEN << >>
                 ELSE MakeDict(name, FindArgs(args, const, root, FALSE), << >>)
    /\ script = IF ExampleStart THEN 0 ELSE NotFollowed
    /\ constraint = [l \in Parameters \cup Wrappers |-> NoNode]
    /\ profile = NoNode

\* eq(*pos, **kw)
CallStep(pos, kw) ==
    /\ steps' = steps + 1
    /\ LET r == EquationCall(EqCur, pos, kw)
       IN  /\ cache' = r.cache
           /\ value' = r.value
           /\ obj' = r.obj
           /\ last' = EqOutcome("call", NoNode, NoNode, pos, kw, r)
    /\ script' = Follow(Event("call", NoNode, NoNode, pos, kw))
    /\ UNCHANGED << args, observers, swapflag, root, argdict, const, name,
                    constraint, profile >>

Call(pos, kw) == steps < MaxSteps /\ CallStep(pos, kw)

\* eq.swap(oldlit, newlit).  With a root in place oldlit is drawn among the
\* nodes under it.
EqSwapStep(oldlit, newlit) ==
    /\ IF root = NoNode THEN TRUE ELSE oldlit \in Below(args, root, Fuel)
    /\ steps' = steps + 1
    /\ LET r == EquationSwap(EqCur, oldlit, newlit)
       IN  /\ args' = r.args
           /\ observers' = r.observers
           /\ cache' = r.cache
           /\ swapflag' = r.swap
           /\ root' = r.root
           /\ argdict' = r.argdict
           /\ last' = EqOutcome("eqswap", oldlit, newlit, << >>, << >>, r)
    /\ script' = Follow(Event("eqswap", oldlit, newlit, << >>, << >>))
    /\ UNCHANGED << value, obj, const, name, constraint, profile >>

EqSwap(oldlit, newlit) == steps < MaxSteps /\ EqSwapStep(oldlit, newlit)

\* eq.setRoot(node)
SetRoot(node) ==
    /\ steps < MaxSteps
    /\ steps' = steps + 1
    /\ LET r == EquationSetRoot(EqCur, node)
       IN  /\ root' = r.root
           /\ argdict' = r.argdict
           /\ last' = EqOutcome("setRoot", node, NoNode, << >>, << >>, r)
    /\ UNCHANGED << args, observers, cache, value, obj, swapflag, const,
                    name, script, constraint, profile >>

\* Parameter.setConst(const, value)
SetConst(l, c, val) ==
    /\ l \in Parameters \cup Wrappers
    /\ steps < MaxSteps
    /\ steps' = steps + 1
    /\ const' = [const EXCEPT ![l] = c]
    /\ LET r == IF val # None THEN LeafSetValue(EqCur, l, val) ELSE EqCur
       IN  /\ cache' = r.cache
           /\ value' = r.value
           /\ obj' = r.obj
           /\ last' = EqOutcome("setConst", l, NoNode, << >>, << >>, r)
    /\ UNCHANGED << args, observers, swapflag, root, argdict, name, script,
                    constraint, profile >>

\* Parameter.setValue(val) and ParameterWrapper.setValue(val): AttributeError
\* with a constraint, else the value is set as that of any leaf.
ParameterSetValue(l, val) ==
    /\ l \in Parameters \cup Wrappers
    /\ steps < MaxSteps
    /\ steps' = steps + 1
    /\ LET r == LeafSetValue(EqCur, l, val)
           old == IF l \in Wrappers THEN Some(obj[l]) ELSE value[l]
           changed == r.err # "AttributeError" /\ val # old
       IN  /\ cache' = r.cache
           /\ value' = r.value
           /\ obj' = r.obj
           /\ last' = [Outcome("setValue", l, NoNode, NoNode, r.err, val,
                               IF changed
                               THEN Cardinality(NotifySet(observers, l))
                               ELSE 0,
                               NoNode, {}) EXCEPT !.chg = changed]
    /\ UNCHANGED << args, observers, swapflag >>
    /\ UNCHANGED eqvars

EqNext ==
    \/ \E n \in {"G", "a"} : SetRoot(n)
    \/ \E o \in {"a", "b"}, n \in {"c", "H"} : EqSwap(o, n)
    \/ \E pos \in PosChoices(MaxBind) :
          \E kw \in KwChoices(MaxBind - Len(pos)) : Call(pos, kw)
    \/ \E c \in BOOLEAN, v \in {None} \cup {Some(x) : x \in CallVals} :
          SetConst("b", c, v)
    \/ \E l \in Parameters, x \in CallVals : ParameterSetValue(l, Some(x))
    \/ \E v \in {None} \cup {Some(x) : x \in CallVals} :
          ArgumentSetValue("a", v)
    \/ \E f \in Ops : AddLiteral(f, "c")
    \/ \E t \in Ops : Swap(t, "b", "c")

\* An Equation in use: its own methods, and the operations on the tree and
\* on the leaves made behind its back.
EqSpec == EqInit /\ [][EqNext]_vars

\* The steps of the example, four operations long.
ExampleCall(kw) == steps < MaxSteps + 2 /\ CallStep(<< >>, kw)

ExampleSwap(oldlit, newlit) ==
    steps < MaxSteps + 2 /\ EqSwapStep(oldlit, newlit)

ExampleInit == EqInit /\ ExampleStart

ExampleNext ==
    \/ \E kw \in KwChoices(1) : ExampleCall(kw)
    \/ \E o \in ExampleLeaves, n \in ExampleLeaves : ExampleSwap(o, n)

\* An Equation that is only called and swapped, as in the example.
ExampleSpec == ExampleInit /\ [][ExampleNext]_vars

\* ================================================= Parameter constraints
\* ParameterProxy instances and the Parameter each is a proxy for.
Proxies == {"p"}
par == [p \in Proxies |-> "b"]

\* The roots of the Equations a Parameter is constrained to.
ConstraintRoots == {"a", "b", "c", "G"}

\* A constrain that refuses an Equation whose tree holds the Parameter.
ParameterConstrainChecked(st, l, r) ==
    IF l \in Below(st.args, r, Fuel) THEN [st EXCEPT !.err = "ValueError"]
    ELSE Notify([st EXCEPT !.constraint = [@ EXCEPT ![l] = r],
                           !.value = [@ EXCEPT ![l] = None]], l)

\* A constrain that stores the constraint and flushes nothing.
ParameterConstrainNoFlush(st, l, r) ==
    [st EXCEPT !.constraint = [@ EXCEPT ![l] = r]]

\* Parameter.constrain(eq): the constraint is stored, then _flush(None)
\* clears _value and notifies the observers.
ParameterConstrain(st, l, r) ==
    Notify([st EXCEPT !.constraint = [@ EXCEPT ![l] = r],
                      !.value = [@ EXCEPT ![l] = None]], l)

\* An unconstrain that drops the constraint without reading its value.
ParameterUnconstrainNoStore(st, l) ==
    Notify([st EXCEPT !.constraint = [@ EXCEPT ![l] = NoNode]], l)

\* An unconstrain that hands the value of the constraint to the setter of a
\* wrapper.
ParameterUnconstrainWriteThrough(st, l) ==
    IF st.constraint[l] = NoNode THEN Notify(st, l)
    ELSE LET r == ConstraintCall(st, l, EvalFuel)
         IN  IF r.err # "ok"
             THEN [st EXCEPT !.err = r.err, !.cache = r.cache,
                             !.value = r.value]
             ELSE Notify([st EXCEPT !.cache = r.cache,
                                    !.value = [r.value EXCEPT ![l] = r.v],
                                    !.obj = [w \in Wrappers |->
                                               IF w = l THEN r.v[1] ELSE @[w]],
                                    !.constraint = [@ EXCEPT ![l] = NoNode]],
                         l)

\* Parameter.unconstrain(), which ParameterWrapper inherits: the value of
\* the constraint is assigned to _value and the constraint dropped, then
\* the observers are notified.
ParameterUnconstrain(st, l) ==
    IF st.constraint[l] = NoNode THEN Notify(st, l)
    ELSE LET r == ConstraintCall(st, l, EvalFuel)
         IN  IF r.err # "ok"
             THEN [st EXCEPT !.err = r.err, !.cache = r.cache,
                             !.value = r.value]
             ELSE Notify([st EXCEPT !.cache = r.cache,
                                    !.value = [r.value EXCEPT ![l] = r.v],
                                    !.constraint = [@ EXCEPT ![l] = NoNode]],
                         l)

\* l.setValue(*argv) as Python makes the call: the method takes one value.
SetValueCall(st, l, argv) ==
    IF Len(argv) # 1 THEN [st EXCEPT !.err = "TypeError"]
    ELSE LeafSetValue(st, l, argv[1])

\* The setter of ParameterProxy.value: self.par.setValue(self, val).
ProxyValueSetter(st, p, val) == SetValueCall(st, par[p], << p, val >>)

\* The getter of ParameterProxy.value, and proxy.getValue() as __getattr__
\* redirects it: self.par.getValue().
ProxyValueGetter(st, p) == NodeValue(st, par[p], EvalFuel)

\* l.constrain(Equation(root = r)); done is the set of Operators that held
\* a value in _value and lost it.
Constrain(l, r) ==
    /\ l \in Parameters \cup Wrappers
    /\ steps < MaxSteps
    /\ steps' = steps + 1
    /\ LET s1 == ParameterConstrain(Cur, l, r)
       IN  /\ constraint' = s1.constraint
           /\ value' = s1.value
           /\ cache' = s1.cache
           /\ obj' = s1.obj
           /\ last' = Outcome("constrain", l, r, NoNode, s1.err, None,
                              Cardinality(NotifySet(observers, l)), NoNode,
                              {o \in Ops : cache[o] # None
                                              /\ s1.cache[o] = None})
    /\ UNCHANGED << args, observers, swapflag, root, argdict, const,
                    name, script, profile >>

\* l.unconstrain()
Unconstrain(l) ==
    /\ l \in Parameters \cup Wrappers
    /\ steps < MaxSteps
    /\ steps' = steps + 1
    /\ LET s1 == ParameterUnconstrain(Cur, l)
       IN  /\ constraint' = s1.constraint
           /\ value' = s1.value
           /\ cache' = s1.cache
           /\ obj' = s1.obj
           /\ last' = Outcome("unconstrain", l, constraint[l], NoNode, s1.err,
                              None, Cardinality(NotifySet(observers, l)),
                              NoNode, {})
    /\ UNCHANGED << args, observers, swapflag, root, argdict, const,
                    name, script, profile >>

\* proxy.value = val
ProxyAssign(p, val) ==
    /\ steps < MaxSteps
    /\ steps' = steps + 1
    /\ LET s1 == ProxyValueSetter(Cur, p, Some(val))
       IN  /\ value' = s1.value
           /\ cache' = s1.cache
           /\ last' = Outcome("proxyAssign", p, par[p], NoNode, s1.err,
                              Some(val), 0, NoNode, {})
    /\ UNCHANGED << args, observers, obj, swapflag >>
    /\ UNCHANGED eqvars

\* proxy.getValue()
ProxyGetValue(p) ==
    /\ steps < MaxSteps
    /\ steps' = steps + 1
    /\ LET r == ProxyValueGetter(Cur, p)
       IN  /\ value' = r.value
           /\ cache' = r.cache
           /\ last' = Outcome("proxyGetValue", p, par[p], NoNode, r.err, r.v,
                              r.n, NoNode, {})
    /\ UNCHANGED << args, observers, obj, swapflag >>
    /\ UNCHANGED eqvars

\* The wrapped object is given a value by its owner, not through the
\* wrapper.
ObjectSet(l, val) ==
    /\ l \in Wrappers
    /\ steps < MaxSteps
    /\ steps' = steps + 1
    /\ obj' = [obj EXCEPT ![l] = val]
    /\ last' = Outcome("objectSet", l, NoNode, NoNode, "ok", Some(val), 0,
                       NoNode, {})
    /\ UNCHANGED << args, observers, cache, value, swapflag >>
    /\ UNCHANGED eqvars

\* op._value = val, assigned from outside as the unit test of Operator does.
AssignValue(op, val) ==
    /\ op \in Ops
    /\ steps < MaxSteps
    /\ steps' = steps + 1
    /\ cache' = [cache EXCEPT ![op] = Some(val)]
    /\ last' = Outcome("assignValue", op, NoNode, NoNode, "ok", Some(val), 0,
                       NoNode, {})
    /\ UNCHANGED << args, observers, value, obj, swapflag >>
    /\ UNCHANGED eqvars

\* The tree the Parameters stand in: add(a, b), and the wrapper beside a
\* negation of c under a subtraction.
ParTree ==
    [o \in Ops |-> CASE o = "F" -> << "H", "w" >>
                      [] o = "G" -> << "a", "b" >>
                      [] OTHER   -> << "c" >>]

\* Parameters as constructed, with c either free or already constrained to
\* Equation(root = b), which has left its _value cleared.
ParInit ==
    /\ args = ParTree
    /\ observers = [n \in Nodes |-> Parents(args, n)]
    /\ cache = [o \in Ops |-> None]
    /\ constraint \in {[l \in Parameters \cup Wrappers |-> NoNode],
                       [l \in Parameters \cup Wrappers |->
                           IF l = "c" THEN "b" ELSE NoNode]}
    /\ value = [l \in Leaves |->
                   IF l = "a" THEN Some(1)
                   ELSE IF l = "c" /\ constraint[l] # NoNode THEN None
                   ELSE Some(0)]
    /\ obj = [l \in Wrappers |-> 0]
    /\ swapflag = FALSE
    /\ last = Outcome("init", NoNode, NoNode, NoNode, "ok", None, 0, NoNode, {})
    /\ steps = 0
    /\ root = NoNode
    /\ argdict = << >>
    /\ const = [l \in Leaves |-> FALSE]
    /\ name = [l \in Leaves |-> l]
    /\ script = NotFollowed
    /\ profile = NoNode

ParNext ==
    \/ \E l \in Parameters \cup Wrappers, r \in ConstraintRoots :
          Constrain(l, r)
    \/ \E l \in Parameters \cup Wrappers : Unconstrain(l)
    \/ \E l \in Parameters \cup Wrappers, v \in Vals :
          ParameterSetValue(l, Some(v))
    \/ \E v \in OptVals : ArgumentSetValue("a", v)
    \/ \E n \in Parameters \cup Wrappers : GetValue(n)
    \/ \E p \in Proxies, v \in Vals : ProxyAssign(p, v)
    \/ \E p \in Proxies : ProxyGetValue(p)
    \/ \E l \in Wrappers, v \in Vals : ObjectSet(l, v)
    \/ \E o \in Ops \ ConstraintRoots, v \in Vals : AssignValue(o, v)

\* Parameters, a proxy and a wrapper that are constrained, released, read
\* and set, under Operators that may hold a value in _value.
ParSpec == ParInit /\ [][ParNext]_vars

\* ===================================================== an assigned _value
CacheNext ==
    \/ \E o \in Ops, v \in Vals : AssignValue(o, v)
    \/ \E n \in Ops : GetValue(n)
    \/ \E l \in Arguments, v \in OptVals : ArgumentSetValue(l, v)
    \/ \E f \in Ops, n \in Arguments \cup Wrappers : AddLiteral(f, n)
    \/ \E n \in TreeNodes, y \in TreeNodes : Swap(n, n, y)

\* Operators that are given a _value directly, read, and flushed by their
\* leaves, and nodes that a Swapper is started on to replace the node
\* itself.
CacheSpec == Init /\ [][CacheNext]_vars

\* ==================================================== the order of binding
\* The values a call is given when two values for one leaf are to be told
\* apart.
BindVals == {10, 20}

\* The tuples of at most n positional values.
BindPosChoices(n) == UNION {[1 .. k -> BindVals] : k \in 0 .. n}

\* At most n keyword arguments that name leaves of the example, as
\* kw.items() hands them over.
BindKwChoices(n) ==
    UNION {{s \in [1 .. k -> {"a", "b"} \X BindVals] :
               \A i, j \in 1 .. k : i # j => s[i][1] # s[j][1]} : k \in 0 .. n}

BindNext ==
    \E pos \in BindPosChoices(MaxBind) :
       \E kw \in BindKwChoices(MaxBind - Len(pos)) : Call(pos, kw)

\* An Equation that is called with positional and named values.
BindSpec == EqInit /\ [][BindNext]_vars

\* ============================================================ Contribution
\* Two Contributions that were given one Calculator by setCalculator, and
\* the Profile each was given by setProfile.
Contributions == {"lowT", "highT"}
Profiles == {"p1", "p2"}
contribProfile == [k \in Contributions |-> IF k = "lowT" THEN "p1" ELSE "p2"]

\* Profile.y, the measured signal of each Profile (dy is 1).
ProfileY == [q \in Profiles |-> IF q = "p1" THEN 0 ELSE 1]

\* Calculator.setProfile(profile)
CalculatorSetProfile(st, q) == [st EXCEPT !.profile = q]

\* A residual that evaluates the equation with whatever Profile the
\* Calculator holds.
ContributionResidualNoSetProfile(st, k) ==
    LET r == EquationCall(st, << >>, << >>)
    IN  [r EXCEPT !.v = IF r.err = "ok"
                        THEN Some(r.v[1] - ProfileY[contribProfile[k]])
                        ELSE None,
                  !.at = st.profile]

\* Contribution.residual(): the Calculator is given the Contribution's own
\* Profile, then the equation is evaluated and the Profile's y subtracted.
\* Field at of the result is the Profile the Calculator held while the
\* equation was evaluated.
ContributionResidual(st, k) ==
    LET s1 == CalculatorSetProfile(st, contribProfile[k])
        r == EquationCall(s1, << >>, << >>)
    IN  [r EXCEPT !.v = IF r.err = "ok"
                        THEN Some(r.v[1] - ProfileY[contribProfile[k]])
                        ELSE None,
                  !.at = s1.profile]

\* k.residual(); x is the Profile the Calculator held during the
\* evaluation and y the one it held when the call was made.
Residual(k) ==
    /\ steps < MaxSteps
    /\ steps' = steps + 1
    /\ LET r == ContributionResidual(EqCur, k)
       IN  /\ cache' = r.cache
           /\ value' = r.value
           /\ obj' = r.obj
           /\ profile' = r.profile
           /\ last' = [EqOutcome("residual", r.at, profile, << >>, << >>, r)
                       EXCEPT !.f = k, !.at = "eval"]
    /\ UNCHANGED << args, observers, swapflag, root, argdict, const, name,
                    script, constraint >>

\* calculator.setProfile(q), made by any holder of the Calculator.
SetProfile(q) ==
    /\ steps < MaxSteps
    /\ steps' = steps + 1
    /\ profile' = CalculatorSetProfile(EqCur, q).profile
    /\ last' = [EqOutcome("setProfile", q, profile, << >>, << >>, EqCur)
                EXCEPT !.at = "done"]
    /\ UNCHANGED << args, observers, cache, value, obj, swapflag, root,
                    argdict, const, name, script, constraint >>

ContribNext ==
    \/ \E k \in Contributions : Residual(k)
    \/ \E q \in Profiles : SetProfile(q)
    \/ \E l \in Parameters, x \in Vals \cup CallVals :
          ParameterSetValue(l, Some(x))
    \/ \E v \in OptVals : ArgumentSetValue("a", v)

\* Two Contributions over one Calculator whose residuals are asked for in
\* any order while the parameters are given values.
ContribSpec == EqInit /\ [][ContribNext]_vars

\* ======================================================= leaf names
\* The names the leaves are constructed with: all different, or b given
\* the name of a, or c as well.
NameChoices ==
    { [l \in Leaves |-> l],
      [l \in Leaves |-> IF l = "b" THEN "a" ELSE l],
      [l \in Leaves |-> IF l \in {"b", "c"} THEN "a" ELSE l] }

\* Equation.__init__(root) over leaves whose names need not differ.
NameInit ==
    /\ args \in EqTrees
    /\ observers = [n \in Nodes |-> Parents(args, n)]
    /\ cache = [o \in Ops |-> None]
    /\ value = ExampleValues
    /\ obj = [l \in Wrappers |-> 0]
    /\ swapflag = FALSE
    /\ last = Outcome("init", NoNode, NoNode, NoNode, "ok", None, 0, NoNode, {})
    /\ steps = 0
    /\ const = [l \in Leaves |-> FALSE]
    /\ name \in NameChoices
    /\ root \in {TopOf(args), NoNode}
    /\ argdict = IF root = NoNode THEN << >>
                 ELSE MakeDict(name, FindArgs(args, const, root, FALSE), << >>)
    /\ script = NotFollowed
    /\ constraint = [l \in Parameters \cup Wrappers |-> NoNode]
    /\ profile = NoNode

NameNext ==
    \/ \E n \in Ops \cup {"a"} : SetRoot(n)
    \/ \E pos \in PosChoices(MaxBind) :
          \E kw \in KwChoices(MaxBind - Len(pos)) : Call(pos, kw)
    \/ \E c \in BOOLEAN : SetConst("b", c, None)
    \/ \E f \in Ops : AddLiteral(f, "c")

\* An Equation over leaves that may share a name.
NameSpec == NameInit /\ [][NameNext]_vars

\* ===================================================== notification order
\* The tree that Swapper(H, a) started on F and then H.addLiteral(F) leave
\* behind when they start from F = [G, H], G = [a, w], H = [a]: the swap
\* registers F with H again, so that after the addLiteral F and H observe
\* each other and a notification that reaches either of them never
\* returns.
Tangled ==
    LET a0 == [o \in Ops |-> CASE o = "F" -> << "G", "H" >>
                               [] o = "G" -> << "a", "w" >>
                               [] OTHER   -> << "a" >>]
        s0 == [args |-> a0,
               observers |-> [n \in Nodes |-> Parents(a0, n)],
               cache |-> [o \in Ops |-> None],
               value |-> [l \in Arguments |-> None],
               obj |-> [l \in Wrappers |-> 0],
               constraint |-> [l \in Parameters \cup Wrappers |-> NoNode],
               swap |-> FALSE, err |-> "ok", failed |-> NoNode, done |-> {},
               rounds |-> 0]
        s1 == Identify(s0, "F", "H", "a", Fuel)
    IN  Flush([s1 EXCEPT !.args["H"] = Append(@, "F"),
                         !.observers = AddObserver(@, "F", "H")], "H")

\* Trees as they are assembled before use, and the tangled one.
NotifyInit ==
    /\ \E t \in {[args |-> a, observers |-> [n \in Nodes |-> Parents(a, n)]] :
                     a \in InitTrees}
               \cup {[args |-> Tangled.args, observers |-> Tangled.observers]} :
          /\ args = t.args
          /\ observers = t.observers
    /\ cache = [o \in Ops |-> None]
    /\ value \in [Arguments -> {None, Some(0)}]
    /\ obj = [l \in Wrappers |-> 0]
    /\ swapflag = FALSE
    /\ last = Outcome("init", NoNode, NoNode, NoNode, "ok", None, 0, NoNode, {})
    /\ steps = 0
    /\ root = NoNode
    /\ argdict = << >>
    /\ const = [l \in Leaves |-> FALSE]
    /\ name = [l \in Leaves |-> l]
    /\ script = NotFollowed
    /\ constraint = [l \in Parameters \cup Wrappers |-> NoNode]
    /\ profile = NoNode

NotifyNext ==
    \/ \E l \in Arguments, v \in OptVals : ArgumentSetValue(l, v)
    \/ \E l \in Wrappers, v \in Vals : WrapperSetValue(l, v)
    \/ \E f \in Ops, n \in Arguments \cup Wrappers : AddLiteral(f, n)

\* Leaves that are set while Operators observe them, some of which can be
\* notified to the end and some not.
NotifySpec == NotifyInit /\ [][NotifyNext]_vars

\* =================================================================== claims
\* The nodes strictly below an Operator.
Descendants(a, o) == UNION {Below(a, a[o][i], Fuel) : i \in 1 .. Len(a[o])}

\* The Operators from which a node can be reached by following args.
Ancestors(a, node) == {o \in Ops : node \in Descendants(a, o)}

\* The value a leaf holds now.
LeafValue(l) == IF l \in Wrappers THEN Some(obj[l]) ELSE value[l]

RECURSIVE Denote(_, _)
RECURSIVE DenoteArgs(_, _, _, _)
\* The value an expression denotes: the operation of every Operator applied
\* to what its children denote, left to right, whatever any cache holds.
Denote(node, fuel) ==
    IF node \in Leaves
    THEN IF LeafValue(node) = None THEN [err |-> "ValueError", v |-> None]
         ELSE [err |-> "ok", v |-> LeafValue(node)]
    ELSE IF fuel = 0 THEN [err |-> "RecursionError", v |-> None]
    ELSE DenoteArgs(node, 1, << >>, fuel - 1)

DenoteArgs(op, i, acc, fuel) ==
    IF i > Len(args[op]) THEN Apply(operation[op], acc)
    ELSE LET d == Denote(args[op][i], fuel)
         IN  IF d.err # "ok" THEN d
             ELSE DenoteArgs(op, i + 1, Append(acc, d.v[1]), fuel)

\* Every Argument below an Operator has a value.
AllSet(o) == \A l \in Below(args, o, Fuel) \cap Leaves : LeafValue(l) # None

\* s with every occurrence of x replaced by y.
Replaced(s, x, y) == [i \in 1 .. Len(s) |-> IF s[i] = x THEN y ELSE s[i]]

\* C1: no Operator is reachable from itself by following args, after any
\* sequence of addLiteral calls and Swapper replacements, failed ones
\* included.
C1_Acyclic == \A o \in Ops : o \notin Descendants(args, o)

\* C1 witness: a Swapper has put an Operator in the place of another node.
C1_Witness ==
    /\ last.op = "swap" /\ last.err = "ok"
    /\ last.done # {} /\ last.y \in Ops

\* C2: addLiteral raises ValueError when the literal is the Operator itself
\* or has the Operator below it, and a call that raised leaves every args
\* list and every observer set as it was.
C2_SelfReferenceRejected ==
    [][ last'.op = "addLiteral" =>
          /\ (last'.x = last'.f \/ last'.f \in Below(args, last'.x, Fuel))
                => last'.err = "ValueError"
          /\ last'.err = "ValueError"
                => (args' = args /\ observers' = observers) ]_vars

\* C2 witness: an addLiteral of an Operator that holds the receiver below
\* it, not directly, was rejected.
C2_Witness ==
    /\ last.op = "addLiteral" /\ last.err = "ValueError"
    /\ last.x # last.f
    /\ ~Contains(args[last.x], last.f)

\* C3: when every leaf below an Operator has a value, getValue returns the
\* operation applied to the current values of the children in args order.
C3_ValueIsOperationOfChildren ==
    (last.op = "getValue" /\ AllSet(last.f)) =>
        /\ last.err = Denote(last.f, Fuel).err
        /\ last.v = Denote(last.f, Fuel).v

\* C3 witness: getValue returned a number for an Operator that has an
\* Operator child and two children of different value.
C3_Witness ==
    /\ last.op = "getValue" /\ last.err = "ok"
    /\ Len(args[last.f]) = 2
    /\ \E i \in 1 .. 2 : args[last.f][i] \in Ops
    /\ Denote(args[last.f][1], Fuel).v # Denote(args[last.f][2], Fuel).v

\* C4: right after a setValue that changed a leaf and returned, the leaf
\* holds the new value, every Operator above the leaf has no cached value,
\* and getValue on each of them gives what the tree denotes with the new
\* value.
C4_Invalidation ==
    (last.op = "setValue" /\ last.chg /\ last.err = "ok") =>
        /\ LeafValue(last.f) = last.v
        /\ \A o \in Ancestors(args, last.f) :
              /\ cache[o] = None
              /\ OperatorGetValue(Cur, o, Fuel).err = Denote(o, Fuel).err
              /\ OperatorGetValue(Cur, o, Fuel).v = Denote(o, Fuel).v

\* C4 witness: a leaf shared by two parents, one of them below a third
\* Operator, was changed.
C4_Witness ==
    /\ last.op = "setValue" /\ last.chg /\ last.err = "ok"
    /\ Cardinality(Parents(args, last.f)) >= 2
    /\ Cardinality(Ancestors(args, last.f)) >= 3

\* C5: of two getValue calls in a row on one Operator, the second returns
\* the value of the first and invokes no operation.
C5_SecondCallUsesCache ==
    [][ ( /\ last.op = "getValue" /\ last.err = "ok"
          /\ last'.op = "getValue" /\ last'.f = last.f )
        => (last'.err = "ok" /\ last'.v = last.v /\ last'.n = 0) ]_vars

\* C6: an Operator that has a cached value holds what it denotes.
C6_NoStaleCache ==
    \A o \in Ops : cache[o] # None => cache[o] = Denote(o, Fuel).v

\* C6 case: some Operator has a cached value.
C6_CachePresent == \E o \in Ops : cache[o] # None

\* C7: setting a leaf to the value it holds notifies no observer and leaves
\* the caches and the stored values as they were.
C7_EqualValueIsNoOp ==
    [][ (last'.op = "setValue" /\ last'.v = LeafValue(last'.f)) =>
          /\ last'.n = 0
          /\ last'.err = "ok"
          /\ cache' = cache /\ value' = value /\ obj' = obj ]_vars

\* C7 witness: a wrapper that an Operator observes was set to the value it
\* already had.
C7_Witness ==
    /\ last.op = "setValue" /\ ~last.chg
    /\ last.f \in Wrappers
    /\ observers[last.f] # {}

\* C8: after a Swapper that raised nothing, started on a root other than
\* oldlit, no Operator under the root has oldlit among its args (newlit is
\* another node and does not hold oldlit itself).
C8_SwapReplacesEveryOccurrence ==
    ( /\ last.op = "swap" /\ last.err = "ok"
      /\ last.f # last.x /\ last.x # last.y
      /\ last.x \notin Below(args, last.y, Fuel) )
    => \A o \in Below(args, last.f, Fuel) \cap Ops :
          ~Contains(args[o], last.x)

C11_ObserverChildConsistency ==
    \A o \in Ops, n \in Nodes : (o \in observers[n]) <=> Contains(args[o], n)

\* C20: a Swapper whose oldlit and newlit are one node returns without
\* raising and leaves every args list, every observer set and every cached
\* value as it was.
C20_SwapSelfIsNoOp ==
    [][ (last'.op = "swap" /\ last'.x = last'.y) =>
          /\ last'.err = "ok"
          /\ args' = args /\ observers' = observers /\ cache' = cache ]_vars

\* C20 witness: a node was swapped for itself under a root that has an
\* Operator holding the node among its args.
C20_Witness ==
    /\ last.op = "swap" /\ last.x = last.y /\ last.f # last.x
    /\ \E o \in Below(args, last.f, Fuel) \cap Ops : Contains(args[o], last.x)

\* The elements of a sequence.
Range(s) == {s[i] : i \in 1 .. Len(s)}

\* The value the j-th binding of a call hands over, positional values first.
Supplied(rec, j) ==
    IF j <= Len(rec.pos) THEN rec.pos[j] ELSE rec.kw[j - Len(rec.pos)][2]

\* C12: a call leaves every leaf it was given no value for at the value it
\* had, and a call that returns has given every named leaf its value and
\* returns what the tree denotes with the values the leaves hold then.
C12_EquationMemory ==
    [][ last'.op = "call" =>
          /\ \A l \in Leaves \ Range(last'.bound) :
                LeafValue(l)' = LeafValue(l)
          /\ last'.err = "ok" =>
                /\ \A i \in 1 .. Len(last'.kw), l \in Leaves :
                      l = DictGet(argdict, last'.kw[i][1])
                         => LeafValue(l)' = Some(last'.kw[i][2])
                /\ Denote(root, Fuel)'.err = "ok"
                /\ last'.v = Denote(root, Fuel)'.v ]_vars

\* C12 witness: a call that returned bound one leaf of the tree and left
\* another at a value that an earlier call or setValue gave it.
C12_Witness ==
    /\ last.op = "call" /\ last.err = "ok" /\ last.bound # << >>
    /\ \E l \in (Below(args, root, Fuel) \cap Leaves) \ Range(last.bound) :
          LeafValue(l) # ExampleValues[l]

\* C13: from a = 1, b = 4 and the root add(a, b), eq() returns 5, then
\* eq(a=10) returns 14, then after eq.swap(b, c) with c = 100, eq() returns
\* 110.
C13_Example ==
    script = steps =>
        /\ steps = 1 => (last.err = "ok" /\ last.v = Some(5))
        /\ steps = 2 => (last.err = "ok" /\ last.v = Some(14))
        /\ steps = 3 => last.err = "ok"
        /\ steps = 4 => (last.err = "ok" /\ last.v = Some(110))

\* C13 witness: the four operations of the example were made in order.
C13_Witness == script = Len(Example) /\ steps = Len(Example)

\* C14: right after an Equation.swap that raised nothing, the leaves of the
\* mapping are the leaves under the root that are not constant: what newlit
\* brought in is there and an oldlit that is gone from the tree is not.
C14_SwapRebuildsMapping ==
    (last.op = "eqswap" /\ last.err = "ok") =>
        Range(DictValues(argdict))
           = {l \in Below(args, root, Fuel) \cap Leaves : ~const[l]}

\* C14 witness: the swap took oldlit out of the tree and newlit brought a
\* leaf into the mapping that is not newlit itself.
C14_Witness ==
    /\ last.op = "eqswap" /\ last.err = "ok"
    /\ last.x \notin Below(args, root, Fuel)
    /\ last.y \in Ops
    /\ Range(DictValues(argdict)) \cap Below(args, last.y, Fuel) # {}

\* C15: a call given more positional values than the mapping has leaves
\* raises ValueError.
C15_TooManyArguments ==
    (last.op = "call" /\ Len(last.pos) > Len(argdict)) =>
        last.err = "ValueError"

\* C16: a call given a keyword name that is no key of the mapping raises
\* ValueError and returns no value.
C16_UnknownName ==
    (last.op = "call"
       /\ \E i \in 1 .. Len(last.kw) : DictGet(argdict, last.kw[i][1]) = NoNode)
    => (last.err = "ValueError" /\ last.v = None)

\* C17: when a call fails while it binds, on the count of the positional
\* values or on an unknown name, the values before the offending one were
\* all applied and remain on their leaves, and every other leaf is as it
\* was.
C17_PartialBinding ==
    [][ ( /\ last'.op = "call"
          /\ last'.at \in {"pos", "kw"}
          /\ last'.err \in {"ValueError", "IndexError"} ) =>
          LET b == last'.bound
          IN  /\ Len(b) = IF last'.at = "pos" THEN Len(argdict)
                          ELSE Len(last'.pos)
                               + Cardinality({i \in 1 .. Len(last'.kw) :
                                    \A j \in 1 .. i :
                                       DictGet(argdict, last'.kw[j][1]) # NoNode})
              /\ \A j \in 1 .. Len(b), l \in Leaves :
                    (l = b[j] /\ \A k \in (j + 1) .. Len(b) : b[k] # l)
                       => LeafValue(l)' = Some(Supplied(last', j))
              /\ \A l \in Leaves \ Range(b) : LeafValue(l)' = LeafValue(l)
       ]_vars

\* C17 witness: a call failed on an unknown name after it had changed the
\* value of a leaf.
C17_Witness ==
    /\ last.op = "call" /\ last.at = "kw" /\ last.err = "ValueError"
    /\ last.bound # << >>
    /\ LeafValue(last.bound[1]) # ExampleValues[last.bound[1]]

\* C18: a setRoot whose validation raised ValueError leaves the root and the
\* mapping as they were.
C18_FailedSetRootKeepsRoot ==
    [][ (last'.op = "setRoot" /\ last'.err = "ValueError")
           => (root' = root /\ argdict' = argdict) ]_vars

\* C18 case: a setRoot raised ValueError.
C18_ValidationFailed == last.op = "setRoot" /\ last.err = "ValueError"

\* C19: every leaf of the mapping is under the root and is not constant.
C19_MappingInvariant ==
    \A i \in 1 .. Len(argdict) :
        /\ root # NoNode
        /\ argdict[i][2] \in Below(args, root, Fuel)
        /\ ~const[argdict[i][2]]

\* C29: an addLiteral that returned has put the node at the end of the
\* Operator's args with every earlier position as it was, has left the args
\* of every other Operator alone, has registered the Operator as an observer
\* of the node, and leaves the Operator without a cached value.
C29_AddLiteralAppends ==
    [][ (last'.op = "addLiteral" /\ last'.err = "ok") =>
          /\ args'[last'.f] = Append(args[last'.f], last'.x)
          /\ \A i \in 1 .. Len(args[last'.f]) :
                args'[last'.f][i] = args[last'.f][i]
          /\ \A o \in Ops \ {last'.f} : args'[o] = args[o]
          /\ last'.f \in observers'[last'.x]
          /\ cache'[last'.f] = None ]_vars

\* C29 witness: a node was added to an Operator that had a child, and the
\* two children differ.
C29_Witness ==
    /\ last.op = "addLiteral" /\ last.err = "ok"
    /\ Len(args[last.f]) = 2
    /\ args[last.f][2] = last.x
    /\ args[last.f][1] # last.x

\* C30: when the loop check on newlit fails in _swapLiteral for an Operator,
\* the swap raises ValueError with oldlit back at its index in that
\* Operator's args, the args equal to what they were, the Operator again an
\* observer of oldlit, newlit not among the args, and the Operator no more
\* an observer of newlit than it was.
C30_PerOccurrenceRollback ==
    [][ (last'.op = "swap" /\ last'.err = "ValueError") =>
          LET op == last'.failed
          IN  /\ op \in Ops
              /\ Contains(args[op], last'.x)
              /\ IndexOf(args'[op], last'.x, 1) = IndexOf(args[op], last'.x, 1)
              /\ args'[op] = args[op]
              /\ op \in observers'[last'.x]
              /\ ~Contains(args'[op], last'.y)
              /\ (op \in observers'[last'.y]) <=> (op \in observers[last'.y])
       ]_vars

\* C30 witness: the loop check failed for an Operator that holds oldlit at
\* the second of two positions.
C30_Witness ==
    /\ last.op = "swap" /\ last.err = "ValueError"
    /\ last.failed \in Ops
    /\ Len(args[last.failed]) = 2
    /\ args[last.failed][2] = last.x
    /\ args[last.failed][1] # last.x

\* The number of values the operation of an Operator takes.
Arity(o) == IF operation[o] = "negative" THEN 1 ELSE 2

\* Every Operator under node has as many children as its operation takes.
WellFormed(node) ==
    \A o \in Below(args, node, Fuel) \cap Ops : Len(args[o]) = Arity(o)

\* C21: a call that got as far as evaluating a root under which a leaf has
\* no value (the root itself, or a leaf any number of well-formed Operators
\* below it) raises ValueError and returns no value.
C21_UnsetLeafRaises ==
    ( /\ last.op = "call" /\ last.at = "eval"
      /\ root # NoNode
      /\ WellFormed(root)
      /\ \E l \in Below(args, root, Fuel) \cap Leaves : LeafValue(l) = None )
    => (last.err = "ValueError" /\ last.v = None)

\* C21 witness: the root of the call is an Operator and the leaf without a
\* value is below one of its Operator children.
C21_Witness ==
    /\ last.op = "call" /\ last.at = "eval" /\ last.err = "ValueError"
    /\ root \in Ops
    /\ \E l \in Leaves, o \in Ops :
          /\ LeafValue(l) = None
          /\ Contains(args[root], o)
          /\ Contains(args[o], l)
          /\ ~Contains(args[root], l)

RECURSIVE Flatten(_, _)
RECURSIVE FlattenArgs(_, _, _)
\* The leaves of the expression under node as it is written out, left to
\* right, a leaf as many times as it occurs.
Flatten(node, fuel) ==
    IF node \in Leaves THEN << node >>
    ELSE IF node \notin Ops \/ fuel = 0 THEN << >>
    ELSE FlattenArgs(node, 1, fuel - 1)

FlattenArgs(op, i, fuel) ==
    IF i > Len(args[op]) THEN << >>
    ELSE Flatten(args[op][i], fuel) \o FlattenArgs(op, i + 1, fuel)

\* C22: as the constructor, setRoot or Equation.swap leave them, the leaves
\* of Equation.args are the leaves under the root that are not constant,
\* each of them once, in the order of their first occurrence in the
\* expression read left to right.
C22_ArgsInFirstEncounteredOrder ==
    ( \/ last.op = "init" /\ root # NoNode
      \/ last.op \in {"setRoot", "eqswap"} /\ last.err = "ok" ) =>
        LET s == DictValues(argdict)
            flat == Flatten(root, Fuel)
        IN  /\ Range(s) = {l \in Range(flat) : ~const[l]}
            /\ \A i, j \in 1 .. Len(s) :
                  i < j => IndexOf(flat, s[i], 1) < IndexOf(flat, s[j], 1)

\* C22 witness: the mapping was built over an expression in which its first
\* leaf occurs again after its second leaf.
C22_Witness ==
    /\ last.op \in {"setRoot", "eqswap"} /\ last.err = "ok"
    /\ Len(argdict) >= 2
    /\ LET s == DictValues(argdict)
           flat == Flatten(root, Fuel)
       IN  /\ Count(flat, s[1]) >= 2
           /\ \E i \in 1 .. Len(flat) :
                 i > IndexOf(flat, s[2], 1) /\ flat[i] = s[1]

RECURSIVE Meaning(_, _)
RECURSIVE MeaningArgs(_, _, _, _)
\* The value a node stands for: that of the root of its constraint for a
\* leaf that has one, else the value the leaf holds, and the operation
\* applied to what the children stand for, for an Operator without _value.
Meaning(node, fuel) ==
    IF fuel = 0 THEN [err |-> "RecursionError", v |-> None]
    ELSE IF node \in Parameters \cup Wrappers /\ constraint[node] # NoNode
    THEN Meaning(constraint[node], fuel - 1)
    ELSE IF node \in Leaves
    THEN IF LeafValue(node) = None THEN [err |-> "ValueError", v |-> None]
         ELSE [err |-> "ok", v |-> LeafValue(node)]
    ELSE MeaningArgs(node, 1, << >>, fuel - 1)

MeaningArgs(op, i, acc, fuel) ==
    IF i > Len(args[op]) THEN Apply(operation[op], acc)
    ELSE LET d == Meaning(args[op][i], fuel)
         IN  IF d.err # "ok" THEN d
             ELSE MeaningArgs(op, i + 1, Append(acc, d.v[1]), fuel)

\* C23: setValue on a Parameter or a wrapper that has a constraint raises
\* AttributeError, notifies no observer and leaves the stored values, the
\* constraints, the wrapped object and the caches as they were.
C23_ConstrainedSetValueRejected ==
    [][ ( /\ last'.op = "setValue"
          /\ last'.f \in Parameters \cup Wrappers
          /\ constraint[last'.f] # NoNode ) =>
          /\ last'.err = "AttributeError"
          /\ last'.n = 0
          /\ value' = value /\ constraint' = constraint
          /\ obj' = obj /\ cache' = cache ]_vars

\* C23 witness: a constrained wrapper that an Operator observes was given a
\* value other than the one its object holds.
C23_Witness ==
    /\ last.op = "setValue" /\ last.err = "AttributeError"
    /\ last.f \in Wrappers
    /\ observers[last.f] # {}
    /\ last.v # Some(obj[last.f])

\* C24: getValue of a Parameter or wrapper that has a constraint returns
\* what the root of the constraint stands for now, through any chain of
\* constraints, and raises what reading that root raises.
C24_ConstraintValue ==
    ( /\ last.op = "getValue"
      /\ last.f \in Parameters \cup Wrappers
      /\ constraint[last.f] # NoNode ) =>
        /\ last.err = Meaning(constraint[last.f], EvalFuel).err
        /\ last.v = Meaning(constraint[last.f], EvalFuel).v

\* C24 witness: the Parameter read is constrained to a Parameter that is
\* itself constrained to a leaf, and the value returned is that leaf's and
\* not the one the middle Parameter was constructed with.
C24_Witness ==
    /\ last.op = "getValue" /\ last.err = "ok"
    /\ last.f \in Parameters
    /\ constraint[last.f] \in Parameters
    /\ constraint[constraint[last.f]] \in Arguments
    /\ last.v = value[constraint[constraint[last.f]]]
    /\ last.v # Some(0)

\* C25: an unconstrain of a constrained Parameter raises what reading the
\* constraint raises; when it returns, the constraint is gone, _value and
\* getValue give the value the constraint stood for when unconstrain was
\* called, and setValue no longer raises AttributeError.
C25_UnconstrainKeepsValue ==
    [][ \A l \in Parameters :
          ( /\ last'.op = "unconstrain" /\ last'.f = l
            /\ constraint[l] # NoNode ) =>
            /\ last'.err = Meaning(constraint[l], EvalFuel).err
            /\ last'.err = "ok" =>
                  /\ constraint'[l] = NoNode
                  /\ value'[l] = Meaning(constraint[l], EvalFuel).v
                  /\ NodeValue(Cur, l, EvalFuel)'.err = "ok"
                  /\ NodeValue(Cur, l, EvalFuel)'.v
                        = Meaning(constraint[l], EvalFuel).v
                  /\ \A x \in Vals :
                        LeafSetValue(Cur, l, Some(x))'.err # "AttributeError"
      ]_vars

\* C25 witness: a Parameter constructed with 0 was released from a
\* constraint to the Argument and holds the Argument's value 1.
C25_Witness ==
    /\ last.op = "unconstrain" /\ last.err = "ok"
    /\ last.f \in Parameters
    /\ last.x \in Arguments
    /\ constraint[last.f] = NoNode
    /\ value[last.f] = Some(1)

\* C26: proxy.value = v on a proxy of an unconstrained Parameter returns
\* and leaves the Parameter at v, and proxy.getValue() returns what
\* getValue of the Parameter returns.
C26_ProxyInterchangeable ==
    [][ \A p \in Proxies :
          /\ ( /\ last'.op = "proxyAssign" /\ last'.f = p
               /\ constraint[par[p]] = NoNode ) =>
                  /\ last'.err = "ok"
                  /\ value'[par[p]] = last'.v
          /\ (last'.op = "proxyGetValue" /\ last'.f = p) =>
                  /\ last'.err = Meaning(par[p], EvalFuel).err
                  /\ last'.v = Meaning(par[p], EvalFuel).v ]_vars

\* C27 as claimed: getValue of a wrapper always returns the value the
\* wrapped object holds at that moment.
C27_WrapperAlwaysReadsThrough ==
    [][ \A l \in Wrappers :
          (last'.op = "getValue" /\ last'.f = l) =>
              (last'.err = "ok" /\ last'.v = Some(obj[l])) ]_vars

\* C27 as amended: getValue of a wrapper that has no constraint returns the
\* value the wrapped object holds at that moment, however it came to hold
\* it, and a setValue(v) that returned has left v in the wrapped object.
C27_WrapperInSync ==
    [][ \A l \in Wrappers :
          /\ ( /\ last'.op = "getValue" /\ last'.f = l
               /\ constraint[l] = NoNode ) =>
                  /\ last'.err = "ok"
                  /\ last'.v = Some(obj[l])
                  /\ obj' = obj
          /\ ( /\ last'.op = "setValue" /\ last'.f = l
               /\ last'.err = "ok" ) =>
                  /\ Some(obj'[l]) = last'.v
                  /\ NodeValue(Cur, l, EvalFuel)'.v = last'.v
      ]_vars

\* C27 witness: the wrapper was read after its object had been given a
\* value that the wrapper was not constructed with.
C27_Witness ==
    /\ last.op = "getValue" /\ last.err = "ok"
    /\ last.f \in Wrappers
    /\ constraint[last.f] = NoNode
    /\ last.v # value[last.f]

\* C28: getValue of an Operator whose _value is present returns that value,
\* raises nothing, invokes no operation and changes no cache and no leaf,
\* whatever its children are.
C28_CachedValueReturned ==
    [][ ( /\ last'.op = "getValue" /\ last'.f \in Ops
          /\ cache[last'.f] # None ) =>
          /\ last'.err = "ok"
          /\ last'.v = cache[last'.f]
          /\ last'.n = 0
          /\ cache' = cache /\ value' = value ]_vars

\* C28 witness: the Operator read has a _value and a child without a
\* value.
C28_Witness ==
    /\ last.op = "getValue" /\ last.f \in Ops
    /\ cache[last.f] # None
    /\ \E i \in 1 .. Len(args[last.f]) :
          /\ args[last.f][i] \in Arguments
          /\ value[args[last.f][i]] = None

RECURSIVE Occurrences(_, _, _)
\* How many times x stands in the args of the Operators of S, all together.
Occurrences(a, S, x) ==
    IF S = {} THEN 0
    ELSE LET o == CHOOSE o \in S : TRUE
         IN  Count(a[o], x) + Occurrences(a, S \ {o}, x)

\* C31: a swap that raised nothing has, in every Operator whose args it
\* changed, put newlit at every index where oldlit stood, however many
\* times it stood there, and left the other positions alone; and the loop
\* of _swapLiteral made exactly one pass per occurrence replaced.
C31_AllOccurrencesReplaced ==
    [][ (last'.op = "swap" /\ last'.err = "ok") =>
          /\ \A o \in last'.done :
                /\ args'[o] = Replaced(args[o], last'.x, last'.y)
                /\ ~Contains(args'[o], last'.x)
          /\ \A o \in Ops \ last'.done : args'[o] = args[o]
          /\ last'.n = Occurrences(args, last'.done, last'.x) ]_vars

\* C31 witness: oldlit stood at both positions of one Operator, newlit
\* stands at both now, and the loop made two passes.
C31_Witness ==
    /\ last.op = "swap" /\ last.err = "ok"
    /\ last.n = 2
    /\ \E o \in Ops :
          /\ last.done = {o}
          /\ args[o] = << last.y, last.y >>

\* C32: a Swapper started on the node it is to replace, a leaf or an
\* Operator, raises nothing and leaves every args list, every observer set
\* and every cached value as it was; all it leaves behind is its own flag,
\* set.
C32_RootNotReplaced ==
    [][ (last'.op = "swap" /\ last'.f = last'.x) =>
          /\ last'.err = "ok"
          /\ last'.done = {}
          /\ args' = args /\ observers' = observers /\ cache' = cache
          /\ value' = value /\ obj' = obj
          /\ swapflag' = TRUE ]_vars

\* C32 witness: the Swapper was started on an Operator that has children
\* and a value in _value, to replace it by another node.
C32_Witness ==
    /\ last.op = "swap" /\ last.f = last.x /\ last.x # last.y
    /\ last.f \in Ops
    /\ args[last.f] # << >>
    /\ cache[last.f] # None

\* C32 witness for a leaf: the Swapper was started on a leaf that Operators
\* observe.
C32_LeafRoot ==
    /\ last.op = "swap" /\ last.f = last.x /\ last.x # last.y
    /\ last.f \in Leaves
    /\ observers[last.f] # {}

\* C33: a setValue that finds the value changed notifies the observers
\* while the leaf still holds the old value, stores the new value after a
\* notification that returned, and stores nothing when the notification
\* raised.
C33_NotifyThenStore ==
    [][ \A l \in Arguments \cup Wrappers :
          (last'.op = "setValue" /\ last'.f = l /\ last'.chg) =>
              /\ last'.seen = LeafValue(l)
              /\ last'.seen # last'.v
              /\ last'.err = "ok" => LeafValue(l)' = last'.v
              /\ last'.err # "ok" => LeafValue(l)' = LeafValue(l) ]_vars

\* C33 witness: a wrapper that Operators observe was given a new value, its
\* observers were notified while it held the old one, and it holds the new
\* one now.
C33_Witness ==
    /\ last.op = "setValue" /\ last.chg /\ last.err = "ok"
    /\ last.f \in Wrappers
    /\ last.n >= 2
    /\ last.seen # last.v
    /\ Some(obj[last.f]) = last.v

\* C33 case of a notification that raised: the wrapper holds the value it
\* held.
C33_NotificationRaised ==
    /\ last.op = "setValue" /\ last.chg /\ last.err = "RecursionError"
    /\ last.f \in Wrappers
    /\ Some(obj[last.f]) = last.seen

\* The leaves under node that are not constant.
FreeLeaves(node) == {l \in Below(args, node, Fuel) \cap Leaves : ~const[l]}

\* The position of the first occurrence of a leaf in the expression under
\* the root.
FirstAt(l) == IndexOf(Flatten(root, Fuel), l, 1)

\* C34: setRoot on a tree without self-reference returns whatever the names
\* of the leaves are, and leaves a mapping with one entry for every name
\* borne by a leaf under the root that is not constant: its key is the
\* name, its leaf the one of that name met last, and the number of entries
\* is the number of names, not of leaves.
C34_DuplicateNamesShadow ==
    (last.op = "setRoot" /\ ~Validate(args, last.x)) =>
        /\ last.err = "ok"
        /\ root = last.x
        /\ Len(argdict) = Cardinality({name[l] : l \in FreeLeaves(root)})
        /\ \A i, j \in 1 .. Len(argdict) :
              i # j => argdict[i][1] # argdict[j][1]
        /\ \A i \in 1 .. Len(argdict) :
              /\ argdict[i][2] \in FreeLeaves(root)
              /\ name[argdict[i][2]] = argdict[i][1]
              /\ \A l \in FreeLeaves(root) :
                    name[l] = argdict[i][1] => FirstAt(l) <= FirstAt(argdict[i][2])

\* C34 witness: setRoot returned for a root with more leaves under it that
\* are not constant than the mapping has entries.
C34_Witness ==
    /\ last.op = "setRoot" /\ last.err = "ok"
    /\ root \in Ops
    /\ Len(argdict) >= 1
    /\ Len(argdict) < Cardinality(FreeLeaves(root))

\* C35: a call that returned has bound the i-th positional value to the
\* i-th leaf of the mapping, all of them before the first named value, and
\* the named values in the order they were handed over; every leaf bound
\* holds the value bound to it last, so that a named value prevails over a
\* positional one for the same leaf; and the value returned is that of the
\* root with every binding made.
C35_PositionalThenNamed ==
    [][ (last'.op = "call" /\ last'.err = "ok") =>
          LET b == last'.bound
              np == Len(last'.pos)
          IN  /\ Len(b) = np + Len(last'.kw)
              /\ \A i \in 1 .. np : b[i] = DictValues(argdict)[i]
              /\ \A j \in 1 .. Len(last'.kw) :
                    b[np + j] = DictGet(argdict, last'.kw[j][1])
              /\ \A j \in 1 .. Len(b), l \in Leaves :
                    (l = b[j] /\ \A k \in (j + 1) .. Len(b) : b[k] # l)
                       => LeafValue(l)' = Some(Supplied(last', j))
              /\ Denote(root, Fuel)'.err = "ok"
              /\ last'.v = Denote(root, Fuel)'.v ]_vars

\* C35 witness: the first leaf of the mapping was given one value by
\* position and another by name, and holds the named one.
C35_Witness ==
    /\ last.op = "call" /\ last.err = "ok"
    /\ Len(last.pos) >= 1 /\ Len(last.kw) >= 1
    /\ DictGet(argdict, last.kw[1][1]) = DictValues(argdict)[1]
    /\ last.kw[1][2] # last.pos[1]
    /\ LeafValue(DictValues(argdict)[1]) = Some(last.kw[1][2])
    /\ last.v # None

\* C36: whichever Profile the shared Calculator held when residual was
\* called, it holds the Contribution's own Profile while the equation is
\* evaluated and after the call, and a residual that returned is the value
\* of the equation less the y of the Contribution's own Profile.
C36_ResidualAgainstOwnProfile ==
    [][ \A k \in Contributions :
          (last'.op = "residual" /\ last'.f = k) =>
              /\ last'.x = contribProfile[k]
              /\ profile' = contribProfile[k]
              /\ last'.err = "ok" =>
                    /\ Denote(root, Fuel)'.err = "ok"
                    /\ last'.v = Some(Denote(root, Fuel)'.v[1]
                                         - ProfileY[contribProfile[k]]) ]_vars

\* C36 witness: a residual returned for a Contribution while the Calculator
\* still held the Profile of the other Contribution from an earlier call.
C36_Witness ==
    /\ last.op = "residual" /\ last.err = "ok"
    /\ last.y \in Profiles
    /\ last.y # contribProfile[last.f]
    /\ last.x = contribProfile[last.f]

\* C37: right after constrain the Parameter or wrapper holds the
\* constraint, its own _value is None and every Operator above it, its
\* parents and theirs, has no cached value; the call raises nothing.
C37_ConstrainInvalidates ==
    [][ \A l \in Parameters \cup Wrappers :
          (last'.op = "constrain" /\ last'.f = l) =>
              /\ last'.err = "ok"
              /\ constraint'[l] = last'.x
              /\ value'[l] = None
              /\ \A o \in Ancestors(args, l) : cache'[o] = None
              /\ \A o \in Ops \ Ancestors(args, l) : cache'[o] = cache[o]
      ]_vars

\* C37 witness: the constrain took the cached value of an Operator that is
\* above the Parameter without being its parent.
C37_Witness ==
    /\ last.op = "constrain" /\ last.err = "ok"
    /\ last.f \in Parameters
    /\ value[last.f] = None
    /\ \E o \in last.done :
          /\ ~Contains(args[o], last.f)
          /\ cache[o] = None

\* The nodes whose value the value of node is computed from directly: the
\* root of its constraint for a Parameter or wrapper that has one, the
\* children for an Operator.
ReadsOf(node) ==
    IF node \in Parameters \cup Wrappers
    THEN IF constraint[node] # NoNode THEN {constraint[node]} ELSE {}
    ELSE IF node \in Ops THEN Range(args[node])
    ELSE {}

RECURSIVE ReadsClosure(_, _)
\* S with everything the values of its nodes are computed from.
ReadsClosure(S, k) ==
    LET T == S \cup UNION {ReadsOf(n) : n \in S}
    IN  IF k = 0 \/ T = S THEN S ELSE ReadsClosure(T, k - 1)

\* What the value of node depends on, node itself left out unless it comes
\* back to itself.
DependsOn(node) == ReadsClosure(ReadsOf(node), Cardinality(Nodes))

\* The value of node is defined in terms of itself.
SelfDependent(node) == node \in DependsOn(node)

\* C38: constrain returns without error and stores the constraint also when
\* the Parameter is then defined in terms of itself, directly or through
\* other constrained Parameters; and getValue of a Parameter whose value
\* rests on such a Parameter returns no value: the recursion has no end,
\* unless a leaf without a value is met first and raises ValueError.
C38_SelfConstraintNeverReturns ==
    [][ \A l \in Parameters \cup Wrappers :
          /\ (last'.op = "constrain" /\ last'.f = l /\ SelfDependent(l)') =>
                /\ last'.err = "ok"
                /\ constraint'[l] = last'.x
          /\ ( /\ last'.op = "getValue" /\ last'.f = l
               /\ \E m \in {l} \cup DependsOn(l) : SelfDependent(m) ) =>
                /\ last'.err \in {"RecursionError", "ValueError"}
                /\ last'.v = None
                /\ (\A g \in Arguments : value[g] # None)
                      => last'.err = "RecursionError" ]_vars

\* C38 witness: getValue of a Parameter constrained to a second Parameter
\* that is constrained to the first ended in the recursion.
C38_Witness ==
    /\ last.op = "getValue" /\ last.err = "RecursionError"
    /\ last.f \in Parameters
    /\ constraint[last.f] \in Parameters \ {last.f}
    /\ constraint[constraint[last.f]] = last.f

\* C38 case of an Equation whose tree holds the Parameter: the constrain
\* was accepted.
C38_TreeHoldsParameter ==
    /\ last.op = "constrain" /\ last.err = "ok"
    /\ last.x \in Ops
    /\ Contains(args[last.x], last.f)

\* C39: constrain, getValue and unconstrain of a wrapper leave the wrapped
\* object as it was, and when unconstrain of a constrained wrapper has
\* returned, getValue of the wrapper returns the value the wrapped object
\* holds, whatever the constraint stood for.
C39_WrappedObjectUntouched ==
    [][ \A l \in Wrappers :
          /\ ( /\ last'.op \in {"constrain", "unconstrain", "getValue"}
               /\ last'.f = l ) => obj' = obj
          /\ ( /\ last'.op = "unconstrain" /\ last'.f = l
               /\ constraint[l] # NoNode /\ last'.err = "ok" ) =>
                  /\ constraint'[l] = NoNode
                  /\ NodeValue(Cur, l, EvalFuel)'.err = "ok"
                  /\ NodeValue(Cur, l, EvalFuel)'.v = Some(obj[l]) ]_vars

\* C39 witness: a wrapper was released from a constraint whose value is not
\* the value of the wrapped object.
C39_Witness ==
    /\ last.op = "unconstrain" /\ last.err = "ok"
    /\ last.f \in Wrappers
    /\ last.x # NoNode
    /\ constraint[last.f] = NoNode
    /\ value[last.f] # None
    /\ value[last.f] # Some(obj[last.f])

====
